---- MODULE Spec2Model ----
(***************************************************************************)
(* Model of rt-rpi's core communication runtime (src/rt-rpi/core/com.py    *)
(* and src/rt-rpi/core/threadmanager.py).                                  *)
(*                                                                         *)
(* Spec / FairSpec: one physical connection between a connecting-side      *)
(* Endpoint (outbound mailbox _tx_queue, drained by ConnTxThread           *)
(* forwarders) and a listening-side Endpoint (inbound mailbox _rx_queue,   *)
(* filled by a ConnRxThread forwarder).                                    *)
(* SigSpec: the stop commands and stop_signal assignments on those units.  *)
(* EpSpec: one process's Endpoint registry, the listen()/connect()/        *)
(* __exit__ calls of its threads, and the ListenerThread / ClientThread    *)
(* role threads with the socket they bind or connect to.                   *)
(***************************************************************************)
EXTENDS Naturals, Sequences, FiniteSets

\* ------------------------------------------------------------------ bounds
MaxSend == 2
MaxStop == 2
MaxInit == 1
MaxThreads == 2
MaxCtor == 3
MaxEpSend == 1
MaxPending == 2
MaxExit == 2
MaxSelfStop == 2
MaxAttemptMs == 2
MaxProc == 2
MaxStartCalls == 2
MaxLate == 1
MaxRes == 2
MaxCfg == 2
MaxConn == 2
MaxKSend == 2
MaxEarly == 1

\* ------------------------------------------------------------- identities
\* Python's None object; com.py:147 makes it the outbound-forwarder sentinel.
None == "None"
sentinel == None
\* Values a caller may hand to Endpoint.send(): any picklable object, None included.
Payloads == {"a", None}
\* ConnTxThread instances spawned by ClientThread.run for its one connection.
TxIds == {"tx1", "tx2"}
\* The ConnRxThread instance the Listener spawns for that connection.
RxId == "rx"
Units == TxIds \cup {RxId}
\* Position in ClientThread._conn_handlers: the handlers spawned before handler i.
TxBefore(i) == IF i = "tx2" THEN {"tx1"} ELSE {}
NoMsg == [id |-> 0, val |-> "-"]

VARIABLES
    tx_queue,     \* connecting side: Queue objects ever bound to Endpoint._tx_queue, by allocation index
    tx_cur,       \* connecting side: index of the Queue object Endpoint._tx_queue currently names
    rx_queue,     \* listening side: contents of the Queue object Endpoint._rx_queue currently names
    wire,         \* messages written to the Connection and not yet read by the peer
    connC,        \* connecting-side end of the Connection: "open" | "closed"
    connL,        \* listening-side end of the Connection: "open" | "closed"
    tpc,          \* ConnTxThread position: "unstarted" | "loop" | "get" | "send" | "done"
    tmsg,         \* ConnTxThread local variable msg
    twait,        \* index of the Queue object a ConnTxThread called get() on
    rpc,          \* ConnRxThread position: "unstarted" | "loop" | "recv" | "done"
    stop_signal,  \* ManagedThread._stop_evt.is_set(), per unit
    spc,          \* position of the caller inside ConnTxThread.stop: "idle" | "super"
    stopCalls,    \* history: number of stop() calls begun, per unit
    nInit,        \* history: number of repeated Endpoint constructions
    sent,         \* history: values passed to Endpoint.send(), in call order
    recvd,        \* history: entries returned by Endpoint.recv(), in call order
    txlog,        \* history: ids of the entries written to the Connection, in order
    brokeOn,      \* history: the entry on which a ConnTxThread left its loop as sentinel
    snap,         \* history: ids of the user entries queued when stop() was first called on a forwarder
    blockedAtStop,\* history: forwarders that were blocked on an empty mailbox when stop() was called
    clearTried,   \* history: units whose raised stop signal was assigned False
    \* ---- EpSpec: one OS process, its Endpoint registry and role threads
    nctor,        \* history: number of Endpoint(address) constructions, per address
    ep_handler,   \* Endpoint._ep_handler, per address: a thread id, or NoThread for None
    ep_tx,        \* contents of the Queue object Endpoint._tx_queue names, per address
    ep_qobj,      \* identity (allocation number) of the Queue pair the Endpoint names; 0 before construction
    nq,           \* number of Queue pairs allocated so far
    th,           \* the ClientThread / ListenerThread objects created so far
    nth,          \* number of thread objects created so far
    sock,         \* socket path of each address: NoThread (no file) or the ListenerThread bound to it
    backlog,      \* connections pending on the socket at each address: [by, t] of who opened each
    handlers,     \* number of handler threads spawned so far for each address
    cpc,          \* position of each caller thread inside listen()/connect()/__exit__
    cop,          \* the call a caller is executing: [addr, kind, t]
    exitNoops,    \* history: number of __exit__ calls that found no role attached
    nexit,        \* number of Endpoint.__exit__ calls made so far
    nsend,        \* history: number of Endpoint.send calls in the registry model
    released,     \* history: threads whose Endpoint.__exit__ ran to completion
    everBound,    \* history: ListenerThreads that bound their socket
    \* ---- self-stop attempts and handler failures
    nSelf,        \* history: number of stop() calls a unit made on itself
    raised,       \* history: ConnTxThreads in whose run body an exception was raised
    \* ---- MtSpec: a ManagedThread, the thread holding its scope, its children
    m_hpc,        \* scope holder: "out" | "body" | "exit" | "after"
    m_hexc,       \* how the body of `with unit:` ended: "none" | "return" | "Exception" | "BaseException"
    m_prop,       \* an exception left the with statement into the holder's caller
    m_ppc,        \* the unit's thread: "new" | "body" | "unwind" | "terminated"
    m_pout,       \* how the unit's run body ended: "none" | "return" | "Exception" | "BaseException"
    m_stack,      \* the unit's _exit_stack: callbacks in push order ("dbg" or a child)
    m_sig,        \* stop signal of the unit and of each child
    m_kpc,        \* each child's thread: "new" | "run" | "done"
    m_spawned,    \* history: children registered by spawn(), in order
    m_stopped,    \* history: children whose stop(2) was called by the unwinding, in order
    m_unwinds,    \* history: number of _exit_stack.close() calls
    m_pstop,      \* history: number of stop(2) calls made on the unit by its scope exit
    \* ---- ConnSpec: one ClientThread.connect call and the ClientThread.run around it
    c_pc,         \* "idle" | "try" | "failed" | "connected" | "error"
    c_timeout,    \* the call's timeout argument, in ms
    c_now,        \* monotonic() - start_time, in ms
    c_backoff,    \* local variable backoff, in ms
    c_delays,     \* history: the delays slept, in order
    c_okAt,       \* history: <<elapsed time at which the successful Client() call began>>, or <<>>
    c_thr,        \* the caller of connect: "new" | "connect" | "wait" (ClientThread.run) | "stopper" (ListenerThread.stop) | "done"
    c_handlers,   \* handler threads spawned by ClientThread.run
    c_escaped,    \* an exception left ClientThread.run's wrapper
    \* ---- PmSpec: the process roster and its lock
    p_lock,       \* ManagedProcess._lock
    p_roster,     \* ManagedProcess.MANAGED_PROCESSES: process ids in append order
    p_cpc,        \* each constructing caller: "idle" | "init"
    p_cnew,       \* the process id a constructing caller is building
    p_nproc,      \* number of ManagedProcess objects whose __init__ got past its check
    p_spc,        \* each ProcessManager's start(): "idle" | "lock" | "iter" | "popen" | "done" | "failed"
    p_idx,        \* index of the roster entry start()'s for loop is at, per manager
    p_nstart,     \* number of OS processes launched for each process id
    p_calls,      \* history: number of start() calls begun, per manager
    p_late,       \* history: constructions begun with the lock set
    p_race,      \* history: a start() passed its check while another was between its check and its lock assignment
    p_stack,      \* per ProcessManager: the process ids whose scope its start() entered, in order
    p_order,      \* history: process ids in the order their OS processes were launched
    p_err,        \* what the latest start() raised to its caller, per manager: "none" | "RuntimeError" | "StartError"
    p_entered,    \* the ProcessManagers whose __enter__ has returned
    p_lsn,        \* the 'log' Endpoint has its Listener attached and started
    \* ---- ProcSpec: ManagedProcess scopes, the child's run, wait_processes
    q_rpc,        \* each process: "new" | "setup" | "task" | "close" | "exited"
    q_res,        \* the child's exit_stack: owned resources, in acquisition order
    q_acq,        \* history: every resource the child acquired, in order
    q_rel,        \* history: the resources released by exit_stack.close(), in order
    q_closes,     \* history: number of exit_stack.close() calls in the child
    q_out,        \* how the child's try block ended
    q_hpc,        \* the holder of each process's scope: "out" | "body" | "exit" | "after"
    q_hexc,       \* how the holder's with body ended
    q_live,       \* history: is_alive() as ManagedProcess.__exit__ saw it
    q_join,       \* history: <<timeout>> of the join made by __exit__, or <<>>
    q_prop,       \* the body's exception went on to the holder's caller
    q_wpc,        \* wait_processes: "idle" | "waiting" | "returned"
    q_wset,       \* the processes whose sentinels the call waits on
    q_wtimed,     \* the call was given a timeout
    q_wdue,       \* the call returned because its timeout elapsed
    \* ---- SchedSpec: one ManagedProcess._set_scheduler call
    s_pc,         \* "idle" | "done"
    s_policy,     \* requested policy
    s_prio,       \* requested priority
    s_cur,        \* the process's policy and priority before the call
    s_eff,        \* the process's policy and priority after the call
    s_set,        \* os.sched_setscheduler was called
    s_warned,     \* the out-of-range warning was logged
    s_error       \* the `except Exception` branch logged a failure

pipeVars == <<tx_queue, tx_cur, rx_queue, wire, connC, connL, tpc, tmsg, twait, rpc,
              stop_signal, spc, stopCalls, nInit, sent, recvd, txlog, brokeOn, snap,
              blockedAtStop, clearTried>>

epVars == <<nctor, ep_handler, ep_tx, ep_qobj, nq, th, nth, sock, backlog,
            handlers, cpc, cop, exitNoops, nexit, nsend, released, everBound>>

hsVars == <<nSelf, raised>>

mtVars == <<m_hpc, m_hexc, m_prop, m_ppc, m_pout, m_stack, m_sig, m_kpc, m_spawned,
            m_stopped, m_unwinds, m_pstop>>

cnVars == <<c_pc, c_timeout, c_now, c_backoff, c_delays, c_okAt, c_thr, c_handlers,
            c_escaped>>

pxVars == <<p_stack, p_order, p_err, p_entered, p_lsn>>

pmVars == <<p_lock, p_roster, p_cpc, p_cnew, p_nproc, p_spc, p_idx, p_nstart, p_calls,
            p_late, p_race, pxVars>>

qVars == <<q_rpc, q_res, q_acq, q_rel, q_closes, q_out, q_hpc, q_hexc, q_live, q_join,
           q_prop, q_wpc, q_wset, q_wtimed, q_wdue>>

sVars == <<s_pc, s_policy, s_prio, s_cur, s_eff, s_set, s_warned, s_error>>

VARIABLES
    \* ---- AcceptSpec: one ListenerThread's accept loop and its stop()
    l_cfg,        \* ListenerThread._conn_handlers: the configured classes, in order
    l_pc,         \* the Listener: "new" | "loop" | "accept" | "spawn" | "done"
    l_sig,        \* the Listener's stop signal
    l_idx,        \* position of the for loop over _conn_handlers
    l_conn,       \* number of the connection accept() returned last (0: none yet)
    l_pending,    \* connections waiting on the socket: "client" | "throwaway", oldest first
    l_kind,       \* history: who opened each accepted connection, in accept order
    l_spawned,    \* history: handler threads spawned: [conn, cls, ep], in order
    l_skipped,    \* history: configured classes skipped with an error: [conn, cls]
    l_stoppc,     \* the caller of ListenerThread.stop: "idle" | "connect" | "done"
    \* ---- ClientSpec: a ClientThread after its connection, its handlers, the mailbox
    k_pc,         \* the Client: "new" | "spawn" | "wait" | "unwind" | "done"
    k_sig,        \* the Client's stop signal
    k_nconn,      \* history: number of connections the Client opened
    k_h,          \* each handler thread: "none" | "run" | "stopped" (stop() was called on it) | "done"
    k_conn,       \* the connection: "none" | "up" | "lost"
    k_mbox,       \* the Endpoint's outbound mailbox: message numbers (0: the sentinel), oldest first
    k_nsent,      \* history: number of Endpoint.send calls
    k_wire,       \* history: message numbers transmitted on the connection
    k_lostAt,     \* history: <<k_nsent when the connection was lost or closed>>, or <<>>
    \* ---- NameSpec: constructions of units of several classes
    n_cnt,        \* each class's own _instance_cnt attribute: <<n>>, or <<>> when inherited
    n_names       \* history: [cls, name] of every unit constructed, in order

lVars == <<l_cfg, l_pc, l_sig, l_idx, l_conn, l_pending, l_kind, l_spawned, l_skipped,
           l_stoppc>>

kVars == <<k_pc, k_sig, k_nconn, k_h, k_conn, k_mbox, k_nsent, k_wire, k_lostAt>>

nVars == <<n_cnt, n_names>>

xVars == <<lVars, kVars, nVars>>

VARIABLES
    \* ---- MtSpec: spawn() calls made before the unit's run entry
    m_early       \* history: children handed to spawn() while _exit_stack was None (logged)

meVars == <<m_early>>

VARIABLES
    \* ---- PmSpec: leaving the ProcessManager scope
    p_cbs,        \* each ProcessManager's _exit_callbacks: LogCm or a process id per entered context
    p_xpc,        \* each ProcessManager's __exit__: "open", "unwinding", "closed"
    p_rel         \* history: [mgr, cm] per context released by a manager's __exit__, in order

pyVars == <<p_cbs, p_xpc, p_rel>>

extVars == <<hsVars, mtVars, cnVars, pmVars, qVars, sVars, xVars, meVars, pyVars>>

vars == <<pipeVars, epVars, extVars>>

comVars == <<tx_queue, tx_cur, rx_queue, wire, connC, connL, tpc, tmsg, twait, rpc>>
histVars == <<sent, recvd, txlog, brokeOn, snap, blockedAtStop, clearTried>>

\* ----------------------------------------------------------------- helpers
RECURSIVE SumOver(_, _)
SumOver(f, S) == IF S = {} THEN 0
                 ELSE LET x == CHOOSE y \in S : TRUE IN f[x] + SumOver(f, S \ {x})

Range(q) == {q[k] : k \in 1..Len(q)}

\* Ids of the user entries (id > 0) of a queue.
UserIds(q) == {q[k].id : k \in {j \in 1..Len(q) : q[j].id > 0}}

\* Both mailboxes are built by `Queue()`: maxsize 0, which is unbounded.
Maxsize == 0
\* Queue.full(): only a Queue with a positive maxsize can be full, and only
\* a put on a full Queue blocks or raises Full.
QueueFull(q) == Maxsize > 0 /\ Len(q) >= Maxsize

QueuePutFront(q, e) == <<e>> \o q
\* Queue.put on an unbounded Queue (com.py:36-37 build Queue() with maxsize 0): append at the tail.
QueuePut(q, e) == Append(q, e)

\* The stop_signal property setter (threadmanager.py:91-95): only a true value
\* on an unset event sets it; anything else leaves the event alone.
SetSignalAssign(sig, u, value) == [sig EXCEPT ![u] = value]
SetSignal(sig, u, value) ==
    IF value /\ ~sig[u] THEN [sig EXCEPT ![u] = TRUE] ELSE sig

\* ------------------------------------------------------------------- Init
PipeInit ==
    /\ tx_queue = [g \in 0..MaxInit |-> <<>>]
    /\ tx_cur = 0
    /\ rx_queue = <<>>
    /\ wire = <<>>
    /\ connC = "open"
    /\ connL = "open"
    /\ tpc = [i \in TxIds |-> "unstarted"]
    /\ tmsg = [i \in TxIds |-> NoMsg]
    /\ twait = [i \in TxIds |-> 0]
    /\ rpc = "unstarted"
    /\ stop_signal = [u \in Units |-> FALSE]
    /\ spc = [i \in TxIds |-> "idle"]
    /\ stopCalls = [u \in Units |-> 0]
    /\ nInit = 0
    /\ sent = <<>>
    /\ recvd = <<>>
    /\ txlog = <<>>
    /\ brokeOn = [i \in TxIds |-> NoMsg]
    /\ snap = [i \in TxIds |-> {}]
    /\ blockedAtStop = {}
    /\ clearTried = {}

\* ------------------------------------------------------- Endpoint (caller)
\* Endpoint.send(msg): put on the current outbound Queue object.
Send(v) ==
    /\ Len(sent) < MaxSend
    /\ tx_queue' = [tx_queue EXCEPT ![tx_cur] =
                        QueuePut(@, [id |-> Len(sent) + 1, val |-> v])]
    /\ sent' = Append(sent, v)
    /\ UNCHANGED <<tx_cur, rx_queue, wire, connC, connL, tpc, tmsg, twait, rpc,
                   stop_signal, spc, stopCalls, nInit, recvd, txlog, brokeOn, snap,
                   blockedAtStop, clearTried>>
    /\ UNCHANGED <<epVars, extVars>>

\* Endpoint.recv(): get from the current inbound Queue object (an empty queue
\* blocks until the timeout and raises Empty: no state change).
Recv ==
    /\ rx_queue # <<>>
    /\ recvd' = Append(recvd, Head(rx_queue))
    /\ rx_queue' = Tail(rx_queue)
    /\ UNCHANGED <<tx_queue, tx_cur, wire, connC, connL, tpc, tmsg, twait, rpc,
                   stop_signal, spc, stopCalls, nInit, sent, txlog, brokeOn, snap,
                   blockedAtStop, clearTried>>
    /\ UNCHANGED <<epVars, extVars>>

\* Endpoint(address) for an address already in _instances: __new__ returns the
\* cached object and Python then runs __init__ on it again, which binds fresh
\* Queue objects to _rx_queue and _tx_queue.
Construct(side) ==
    /\ nInit < MaxInit
    /\ nInit' = nInit + 1
    /\ IF side = "C"
          THEN /\ tx_cur' = tx_cur + 1
               /\ UNCHANGED rx_queue
          ELSE /\ rx_queue' = <<>>
               /\ UNCHANGED tx_cur
    /\ UNCHANGED <<tx_queue, wire, connC, connL, tpc, tmsg, twait, rpc,
                   stop_signal, spc, stopCalls, sent, recvd, txlog, brokeOn, snap,
                   blockedAtStop, clearTried>>
    /\ UNCHANGED <<epVars, extVars>>

\* ------------------------------------------------------------ ConnTxThread
\* ClientThread.run's spawn loop starts one handler per configured class, all
\* bound to the same Connection.
TxSpawn(i) ==
    /\ tpc[i] = "unstarted"
    /\ \A j \in TxBefore(i) : tpc[j] # "unstarted"
    /\ tpc' = [tpc EXCEPT ![i] = "loop"]
    /\ UNCHANGED <<tx_queue, tx_cur, rx_queue, wire, connC, connL, tmsg, twait, rpc,
                   stop_signal, spc, stopCalls, nInit>>
    /\ UNCHANGED histVars
    /\ UNCHANGED <<epVars, extVars>>

\* `while not self.stop_signal:` -- false: evaluate self.endpoint._tx_queue and
\* call get() on it; true: leave the loop, `with self.conn` closes the Connection.
TxLoop(i) ==
    /\ tpc[i] = "loop"
    /\ IF stop_signal[i]
          THEN /\ tpc' = [tpc EXCEPT ![i] = "done"]
               /\ connC' = "closed"
               /\ UNCHANGED twait
          ELSE /\ tpc' = [tpc EXCEPT ![i] = "get"]
               /\ twait' = [twait EXCEPT ![i] = tx_cur]
               /\ UNCHANGED connC
    /\ UNCHANGED <<tx_queue, tx_cur, rx_queue, wire, connL, tmsg, rpc,
                   stop_signal, spc, stopCalls, nInit>>
    /\ UNCHANGED histVars
    /\ UNCHANGED <<epVars, extVars>>

\* `msg = queue.get()` returns (the queue is not empty); `if msg is self._sentinel: break`.
IsSentinel(e) == e.val = sentinel
TxGet(i) ==
    /\ tpc[i] = "get"
    /\ tx_queue[twait[i]] # <<>>
    /\ LET e == Head(tx_queue[twait[i]]) IN
        /\ tx_queue' = [tx_queue EXCEPT ![twait[i]] = Tail(@)]
        /\ IF IsSentinel(e)
              THEN /\ tpc' = [tpc EXCEPT ![i] = "done"]
                   /\ connC' = "closed"
                   /\ brokeOn' = [brokeOn EXCEPT ![i] = e]
                   /\ UNCHANGED tmsg
              ELSE /\ tpc' = [tpc EXCEPT ![i] = "send"]
                   /\ tmsg' = [tmsg EXCEPT ![i] = e]
                   /\ UNCHANGED <<connC, brokeOn>>
    /\ UNCHANGED <<tx_cur, rx_queue, wire, connL, twait, rpc,
                   stop_signal, spc, stopCalls, nInit,
                   sent, recvd, txlog, snap, blockedAtStop, clearTried>>
    /\ UNCHANGED <<epVars, extVars>>

\* `self.conn.send(msg)`: written to the Connection, or an exception (this end
\* was closed by another handler of the same Connection, or the peer closed)
\* that is logged and breaks the loop.
TxSend(i) ==
    /\ tpc[i] = "send"
    /\ tmsg' = [tmsg EXCEPT ![i] = NoMsg]
    /\ IF connC = "open" /\ connL = "open"
          THEN /\ wire' = Append(wire, tmsg[i])
               /\ txlog' = Append(txlog, tmsg[i].id)
               /\ tpc' = [tpc EXCEPT ![i] = "loop"]
               /\ UNCHANGED connC
          ELSE /\ tpc' = [tpc EXCEPT ![i] = "done"]
               /\ connC' = "closed"
               /\ UNCHANGED <<wire, txlog>>
    /\ UNCHANGED <<tx_queue, tx_cur, rx_queue, connL, twait, rpc,
                   stop_signal, spc, stopCalls, nInit,
                   sent, recvd, brokeOn, snap, blockedAtStop, clearTried>>
    /\ UNCHANGED <<epVars, extVars>>

\* ConnTxThread.stop, first half: put the sentinel on the Endpoint's current
\* outbound Queue object (unbounded: never Full).
StopPut(i) ==
    /\ tpc[i] # "unstarted"
    /\ spc[i] = "idle"
    /\ SumOver(stopCalls, Units) < MaxStop
    /\ tx_queue' = [tx_queue EXCEPT ![tx_cur] = QueuePut(@, [id |-> 0, val |-> sentinel])]
    /\ spc' = [spc EXCEPT ![i] = "super"]
    /\ stopCalls' = [stopCalls EXCEPT ![i] = @ + 1]
    /\ snap' = IF stopCalls[i] = 0 /\ tpc[i] # "done"
                  THEN [snap EXCEPT ![i] = UserIds(tx_queue[tx_cur])]
                  ELSE snap
    /\ blockedAtStop' = IF tpc[i] = "get" /\ tx_queue[twait[i]] = <<>>
                           THEN blockedAtStop \cup {i}
                           ELSE blockedAtStop
    /\ UNCHANGED <<tx_cur, rx_queue, wire, connC, connL, tpc, tmsg, twait, rpc,
                   stop_signal, nInit, sent, recvd, txlog, brokeOn, clearTried>>
    /\ UNCHANGED <<epVars, extVars>>

\* ConnTxThread.stop, second half: `finally: super().stop(...)` raises the
\* stop signal (the join that follows changes no state).
StopSuper(i) ==
    /\ spc[i] = "super"
    /\ spc' = [spc EXCEPT ![i] = "idle"]
    /\ stop_signal' = SetSignal(stop_signal, i, TRUE)
    /\ UNCHANGED <<stopCalls, nInit>>
    /\ UNCHANGED comVars
    /\ UNCHANGED histVars
    /\ UNCHANGED <<epVars, extVars>>

\* ------------------------------------------------------------ ConnRxThread
RxSpawn ==
    /\ rpc = "unstarted"
    /\ rpc' = "loop"
    /\ UNCHANGED <<tx_queue, tx_cur, rx_queue, wire, connC, connL, tpc, tmsg, twait,
                   stop_signal, spc, stopCalls, nInit>>
    /\ UNCHANGED histVars
    /\ UNCHANGED <<epVars, extVars>>

RxLoop ==
    /\ rpc = "loop"
    /\ IF stop_signal[RxId]
          THEN /\ rpc' = "done"
               /\ connL' = "closed"
          ELSE /\ rpc' = "recv"
               /\ UNCHANGED connL
    /\ UNCHANGED <<tx_queue, tx_cur, rx_queue, wire, connC, tpc, tmsg, twait,
                   stop_signal, spc, stopCalls, nInit>>
    /\ UNCHANGED histVars
    /\ UNCHANGED <<epVars, extVars>>

\* `msg = self.conn.recv()` then `_rx_queue.put(msg, block=False)`; EOFError
\* once the peer's end is closed and nothing is left to read.
RxRecv ==
    /\ rpc = "recv"
    /\ \/ /\ wire # <<>>
          /\ wire' = Tail(wire)
          /\ rx_queue' = QueuePut(rx_queue, Head(wire))
          /\ rpc' = "loop"
          /\ UNCHANGED connL
       \/ /\ wire = <<>>
          /\ connC = "closed"
          /\ rpc' = "done"
          /\ connL' = "closed"
          /\ UNCHANGED <<wire, rx_queue>>
    /\ UNCHANGED <<tx_queue, tx_cur, connC, tpc, tmsg, twait,
                   stop_signal, spc, stopCalls, nInit>>
    /\ UNCHANGED histVars
    /\ UNCHANGED <<epVars, extVars>>

\* ----------------------------------------------------------- ManagedThread
\* ManagedThread.stop on the inbound-forwarder (it has no override): raise the signal.
Stop(u) ==
    /\ u = RxId
    /\ rpc # "unstarted"
    /\ SumOver(stopCalls, Units) < MaxStop
    /\ stopCalls' = [stopCalls EXCEPT ![u] = @ + 1]
    /\ stop_signal' = SetSignal(stop_signal, u, TRUE)
    /\ UNCHANGED <<spc, nInit>>
    /\ UNCHANGED comVars
    /\ UNCHANGED histVars
    /\ UNCHANGED <<epVars, extVars>>

\* An assignment `unit.stop_signal = value` through the property setter.
AssignStopSignal(u, value) ==
    /\ stop_signal' = SetSignal(stop_signal, u, value)
    /\ clearTried' = IF stop_signal[u] /\ ~value THEN clearTried \cup {u} ELSE clearTried
    /\ stop_signal' # stop_signal \/ clearTried' # clearTried
    /\ UNCHANGED <<spc, stopCalls, nInit>>
    /\ UNCHANGED comVars
    /\ UNCHANGED <<sent, recvd, txlog, brokeOn, snap, blockedAtStop>>
    /\ UNCHANGED <<epVars, extVars>>


\* ==================================================== Endpoint registry, roles
\* EpSpec: one OS process. Caller threads construct Endpoints, attach a
\* Listener/Client role with listen()/connect() and release it with __exit__;
\* the role threads run beside them.
Addr == {"e1", "e2"}
Callers == {"u1", "u2"}
TIds == 1..MaxThreads
NoThread == 0
NoThreadRec == [kind |-> "none", addr |-> "-", pc |-> "-", sig |-> FALSE]
NoCall == [addr |-> "-", kind |-> "-", t |-> NoThread]

EpInit ==
    /\ nctor = [a \in Addr |-> 0]
    /\ ep_handler = [a \in Addr |-> NoThread]
    /\ ep_tx = [a \in Addr |-> <<>>]
    /\ ep_qobj = [a \in Addr |-> 0]
    /\ nq = 0
    /\ th = [t \in TIds |-> NoThreadRec]
    /\ nth = 0
    /\ sock = [a \in Addr |-> NoThread]
    /\ backlog = [a \in Addr |-> <<>>]
    /\ handlers = [a \in Addr |-> 0]
    /\ cpc = [u \in Callers |-> "idle"]
    /\ cop = [u \in Callers |-> NoCall]
    /\ exitNoops = 0
    /\ nexit = 0
    /\ nsend = 0
    /\ released = {}
    /\ everBound = {}

\* Endpoint(address): __new__ returns the cached instance for a known address and
\* a new one otherwise; either way Python then runs __init__ on the result, which
\* binds two fresh Queue objects and sets _ep_handler to None.
EpConstruct(a) ==
    /\ SumOver(nctor, Addr) < MaxCtor
    /\ nctor' = [nctor EXCEPT ![a] = @ + 1]
    /\ ep_tx' = [ep_tx EXCEPT ![a] = <<>>]
    /\ nq' = nq + 1
    /\ ep_qobj' = [ep_qobj EXCEPT ![a] = nq + 1]
    /\ ep_handler' = [ep_handler EXCEPT ![a] = NoThread]
    /\ UNCHANGED <<th, nth, sock, backlog, handlers, cpc, cop, exitNoops, nexit,
                   nsend, released, everBound>>
    /\ UNCHANGED <<pipeVars, extVars>>

\* Endpoint.send on a constructed Endpoint.
EpSend(a) ==
    /\ nctor[a] > 0
    /\ nsend < MaxEpSend
    /\ nsend' = nsend + 1
    /\ ep_tx' = [ep_tx EXCEPT ![a] = QueuePut(@, "m")]
    /\ UNCHANGED <<nctor, ep_handler, ep_qobj, nq, th, nth, sock, backlog, handlers,
                   cpc, cop, exitNoops, nexit, released, everBound>>
    /\ UNCHANGED <<pipeVars, extVars>>

\* listen() / connect(), line 1: `if self._ep_handler is not None: raise RuntimeError`.
RoleCheck(u, a, kind) ==
    /\ cpc[u] = "idle"
    /\ nctor[a] > 0
    /\ IF ep_handler[a] # NoThread
          THEN UNCHANGED <<cpc, cop>>
          ELSE /\ nth + Cardinality({w \in Callers : cpc[w] = "attach"}) < MaxThreads
               /\ cpc' = [cpc EXCEPT ![u] = "attach"]
               /\ cop' = [cop EXCEPT ![u] = [addr |-> a, kind |-> kind, t |-> NoThread]]
    /\ UNCHANGED <<nctor, ep_handler, ep_tx, ep_qobj, nq, th, nth, sock, backlog,
                   handlers, exitNoops, nexit, nsend, released, everBound>>
    /\ UNCHANGED <<pipeVars, extVars>>

\* listen() / connect(), line 2: `self._ep_handler = ListenerThread(self)` (or ClientThread).
RoleAttach(u) ==
    /\ cpc[u] = "attach"
    /\ LET t == nth + 1 IN
        /\ nth' = t
        /\ th' = [th EXCEPT ![t] = [kind |-> cop[u].kind, addr |-> cop[u].addr,
                                    pc |-> "new", sig |-> FALSE]]
        /\ ep_handler' = [ep_handler EXCEPT ![cop[u].addr] = t]
        /\ cop' = [cop EXCEPT ![u].t = t]
    /\ cpc' = [cpc EXCEPT ![u] = "start"]
    /\ UNCHANGED <<nctor, ep_tx, ep_qobj, nq, sock, backlog, handlers, exitNoops,
                   nexit, nsend, released, everBound>>
    /\ UNCHANGED <<pipeVars, extVars>>

\* listen() / connect(), line 3: `self._ep_handler.start()` reads the field again:
\* AttributeError on None, RuntimeError from Thread.start on a started thread.
RoleStart(u) ==
    /\ cpc[u] = "start"
    /\ LET h == ep_handler[cop[u].addr] IN
        IF h # NoThread /\ th[h].pc = "new"
           THEN th' = [th EXCEPT ![h].pc = "run"]
           ELSE UNCHANGED th
    /\ cpc' = [cpc EXCEPT ![u] = "idle"]
    /\ cop' = [cop EXCEPT ![u] = NoCall]
    /\ UNCHANGED <<nctor, ep_handler, ep_tx, ep_qobj, nq, nth, sock, backlog,
                   handlers, exitNoops, nexit, nsend, released, everBound>>
    /\ UNCHANGED <<pipeVars, extVars>>

\* Endpoint.__exit__: nothing when _ep_handler is None; otherwise
\* `self._ep_handler.stop(timeout=2)`, whose first effect for either role class
\* is ManagedThread.stop raising the stop signal. ListenerThread.stop goes on
\* to its unblocking connect, ManagedThread.stop to its join.
ExitKeepSignal(rec) == rec
ExitRaiseSignal(rec) == [rec EXCEPT !.sig = TRUE]
ExitBegin(u, a) ==
    /\ cpc[u] = "idle"
    /\ nctor[a] > 0
    /\ nexit < MaxExit
    /\ nexit' = nexit + 1
    /\ LET h == ep_handler[a] IN
        IF h = NoThread
           THEN /\ exitNoops' = exitNoops + 1
                /\ UNCHANGED <<th, cpc, cop>>
           ELSE /\ th' = [th EXCEPT ![h] = ExitRaiseSignal(@)]
                /\ cop' = [cop EXCEPT ![u] = [addr |-> a, kind |-> th[h].kind, t |-> h]]
                /\ cpc' = [cpc EXCEPT ![u] =
                              IF th[h].kind = "listener" THEN "x_conn" ELSE "x_join"]
                /\ UNCHANGED exitNoops
    /\ UNCHANGED <<nctor, ep_handler, ep_tx, ep_qobj, nq, nth, sock, backlog,
                   handlers, nsend, released, everBound>>
    /\ UNCHANGED <<pipeVars, extVars>>

\* ListenerThread.stop: `ClientThread.connect(self.endpoint, self.TIMEOUT*2)`.
\* With a socket at the path the connection is queued on it; with none the
\* attempts fail until the timeout and the ConnectionError is logged.
ExitConn(u) ==
    /\ cpc[u] = "x_conn"
    /\ LET a == cop[u].addr IN
        IF sock[a] # NoThread
           THEN /\ Len(backlog[a]) < MaxPending
                /\ backlog' = [backlog EXCEPT ![a] = Append(@, [by |-> u, t |-> NoThread])]
                /\ cpc' = [cpc EXCEPT ![u] = "x_hs"]
           ELSE /\ cpc' = [cpc EXCEPT ![u] = "x_join"]
                /\ UNCHANGED backlog
    /\ UNCHANGED <<nctor, ep_handler, ep_tx, ep_qobj, nq, th, nth, sock, handlers,
                   cop, exitNoops, nexit, nsend, released, everBound>>
    /\ UNCHANGED <<pipeVars, extVars>>

\* The unblocking connect returns once the Listener accepted it (the handshake
\* is answered inside accept), or fails once the Listener closed its socket.
ExitHandshake(u) ==
    /\ cpc[u] = "x_hs"
    /\ \A e \in Range(backlog[cop[u].addr]) : e.by # u
    /\ cpc' = [cpc EXCEPT ![u] = "x_join"]
    /\ UNCHANGED <<nctor, ep_handler, ep_tx, ep_qobj, nq, th, nth, sock, backlog,
                   handlers, cop, exitNoops, nexit, nsend, released, everBound>>
    /\ UNCHANGED <<pipeVars, extVars>>

\* ManagedThread.stop(timeout): `self.join(timeout)` raises RuntimeError on a
\* thread that was never started, which leaves __exit__ before its assignment;
\* otherwise it returns when the thread has terminated or the timeout elapsed.
ExitJoin(u) ==
    /\ cpc[u] = "x_join"
    /\ IF th[cop[u].t].pc = "new"
          THEN /\ cpc' = [cpc EXCEPT ![u] = "idle"]
               /\ cop' = [cop EXCEPT ![u] = NoCall]
          ELSE /\ cpc' = [cpc EXCEPT ![u] = "x_release"]
               /\ UNCHANGED cop
    /\ UNCHANGED <<nctor, ep_handler, ep_tx, ep_qobj, nq, th, nth, sock, backlog,
                   handlers, exitNoops, nexit, nsend, released, everBound>>
    /\ UNCHANGED <<pipeVars, extVars>>

\* Endpoint.__exit__, last line: `self._ep_handler = None`.
ExitClearHandler(h, a) == [h EXCEPT ![a] = NoThread]
ExitRelease(u) ==
    /\ cpc[u] = "x_release"
    /\ ep_handler' = ExitClearHandler(ep_handler, cop[u].addr)
    /\ released' = released \cup {cop[u].t}
    /\ cpc' = [cpc EXCEPT ![u] = "idle"]
    /\ cop' = [cop EXCEPT ![u] = NoCall]
    /\ UNCHANGED <<nctor, ep_tx, ep_qobj, nq, th, nth, sock, backlog, handlers,
                   exitNoops, nexit, nsend, everBound>>
    /\ UNCHANGED <<pipeVars, extVars>>

\* ---------------------------------------------------------- ListenerThread
\* ListenerThread.run: `with Listener(address=self.endpoint.sock_addr, ...)`.
\* Binding a path that exists raises; the exception is logged and run returns.
LBind(t) ==
    /\ th[t].kind = "listener"
    /\ th[t].pc = "run"
    /\ IF sock[th[t].addr] = NoThread
          THEN /\ sock' = [sock EXCEPT ![th[t].addr] = t]
               /\ th' = [th EXCEPT ![t].pc = "loop"]
               /\ everBound' = everBound \cup {t}
          ELSE /\ th' = [th EXCEPT ![t].pc = "done"]
               /\ UNCHANGED <<sock, everBound>>
    /\ UNCHANGED <<nctor, ep_handler, ep_tx, ep_qobj, nq, nth, backlog, handlers,
                   cpc, cop, exitNoops, nexit, nsend, released>>
    /\ UNCHANGED <<pipeVars, extVars>>

\* Leaving `with Listener(...)`: Listener.close() closes the socket and unlinks
\* its path; connections still pending on it are reset, which sends a
\* ClientThread.connect waiting in its handshake back to a new attempt.
ListenerLeak(sk, t) == sk
ListenerClose(sk, t) == [a \in Addr |-> IF sk[a] = t THEN NoThread ELSE sk[a]]

\* `while not self.stop_signal:` -- true: leave the loop and the with block.
LLoop(t) ==
    /\ th[t].kind = "listener"
    /\ th[t].pc = "loop"
    /\ IF th[t].sig
          THEN /\ th' = [w \in TIds |->
                           IF w = t THEN [th[w] EXCEPT !.pc = "done"]
                           ELSE IF \E e \in Range(backlog[th[t].addr]) : e.t = w
                                   THEN [th[w] EXCEPT !.pc = "run"]
                                   ELSE th[w]]
               /\ sock' = ListenerClose(sock, t)
               /\ backlog' = [backlog EXCEPT ![th[t].addr] = <<>>]
          ELSE /\ th' = [th EXCEPT ![t].pc = "accept"]
               /\ UNCHANGED <<sock, backlog>>
    /\ UNCHANGED <<nctor, ep_handler, ep_tx, ep_qobj, nq, nth, handlers, cpc, cop,
                   exitNoops, nexit, nsend, released, everBound>>
    /\ UNCHANGED <<pipeVars, extVars>>

\* `conn = listener.accept()` returns the oldest pending connection, which
\* completes the handshake its client is waiting in; the default handler tuple
\* (ConnRxThread,) is spawned for it.
LAccept(t) ==
    /\ th[t].kind = "listener"
    /\ th[t].pc = "accept"
    /\ backlog[th[t].addr] # <<>>
    /\ LET e == Head(backlog[th[t].addr]) IN
        th' = [w \in TIds |->
                  IF w = t THEN [th[w] EXCEPT !.pc = "loop"]
                  ELSE IF w = e.t THEN [th[w] EXCEPT !.pc = "spawn"]
                  ELSE th[w]]
    /\ backlog' = [backlog EXCEPT ![th[t].addr] = Tail(@)]
    /\ handlers' = [handlers EXCEPT ![th[t].addr] = @ + 1]
    /\ UNCHANGED <<nctor, ep_handler, ep_tx, ep_qobj, nq, nth, sock, cpc, cop,
                   exitNoops, nexit, nsend, released, everBound>>
    /\ UNCHANGED <<pipeVars, extVars>>

\* ------------------------------------------------------------ ClientThread
\* ClientThread.run: `conn = ClientThread.connect(self.endpoint, self.TIMEOUT)`.
\* With a socket at the path the connection is queued and Client() waits in
\* its handshake; with none the attempts fail until the timeout, and the
\* ConnectionError is logged and run returns.
CConnect(t) ==
    /\ th[t].kind = "client"
    /\ th[t].pc = "run"
    /\ IF sock[th[t].addr] # NoThread
          THEN /\ Len(backlog[th[t].addr]) < MaxPending
               /\ backlog' = [backlog EXCEPT ![th[t].addr] =
                                  Append(@, [by |-> "thread", t |-> t])]
               /\ th' = [th EXCEPT ![t].pc = "hs"]
          ELSE /\ th' = [th EXCEPT ![t].pc = "done"]
               /\ UNCHANGED backlog
    /\ UNCHANGED handlers
    /\ UNCHANGED <<nctor, ep_handler, ep_tx, ep_qobj, nq, nth, sock, cpc, cop,
                   exitNoops, nexit, nsend, released, everBound>>
    /\ UNCHANGED <<pipeVars, extVars>>

\* Connected: the default handler tuple (ConnTxThread,) is spawned, then
\* `self._stop_evt.wait()`.
CSpawn(t) ==
    /\ th[t].kind = "client"
    /\ th[t].pc = "spawn"
    /\ handlers' = [handlers EXCEPT ![th[t].addr] = @ + 1]
    /\ th' = [th EXCEPT ![t].pc = "wait"]
    /\ UNCHANGED <<nctor, ep_handler, ep_tx, ep_qobj, nq, nth, sock, backlog, cpc,
                   cop, exitNoops, nexit, nsend, released, everBound>>
    /\ UNCHANGED <<pipeVars, extVars>>

\* `self._stop_evt.wait()` returns once the stop signal is raised.
CWait(t) ==
    /\ th[t].kind = "client"
    /\ th[t].pc = "wait"
    /\ th[t].sig
    /\ th' = [th EXCEPT ![t].pc = "done"]
    /\ UNCHANGED <<nctor, ep_handler, ep_tx, ep_qobj, nq, nth, sock, backlog,
                   handlers, cpc, cop, exitNoops, nexit, nsend, released, everBound>>
    /\ UNCHANGED <<pipeVars, extVars>>

EpNext ==
    \/ \E a \in Addr : EpConstruct(a)
    \/ \E a \in Addr : EpSend(a)
    \/ \E u \in Callers, a \in Addr, kind \in {"listener", "client"} : RoleCheck(u, a, kind)
    \/ \E u \in Callers : RoleAttach(u)
    \/ \E u \in Callers : RoleStart(u)
    \/ \E u \in Callers, a \in Addr : ExitBegin(u, a)
    \/ \E u \in Callers : ExitConn(u)
    \/ \E u \in Callers : ExitHandshake(u)
    \/ \E u \in Callers : ExitJoin(u)
    \/ \E u \in Callers : ExitRelease(u)
    \/ \E t \in TIds : LBind(t)
    \/ \E t \in TIds : LLoop(t)
    \/ \E t \in TIds : LAccept(t)
    \/ \E t \in TIds : CConnect(t)
    \/ \E t \in TIds : CSpawn(t)
    \/ \E t \in TIds : CWait(t)

\* ============================================ self-stop and handler failures
HsInit ==
    /\ nSelf = 0
    /\ raised = {}

\* ConnTxThread.stop() called by the ConnTxThread itself (from its own run
\* body, between two loop rounds): the override first puts the sentinel on
\* _tx_queue, then `finally: super().stop()` raises RuntimeError before the
\* signal is touched. What the calling code does with the error is its own:
\* the unit is left where it was.
TxSelfStop(i) ==
    /\ tpc[i] = "loop"
    /\ nSelf < MaxSelfStop
    /\ nSelf' = nSelf + 1
    /\ tx_queue' = [tx_queue EXCEPT ![tx_cur] = QueuePut(@, [id |-> 0, val |-> sentinel])]
    /\ UNCHANGED <<tx_cur, rx_queue, wire, connC, connL, tpc, tmsg, twait, rpc,
                   stop_signal, spc, stopCalls, nInit>>
    /\ UNCHANGED histVars
    /\ UNCHANGED <<raised, epVars, mtVars, cnVars, pmVars, qVars, sVars, xVars, meVars, pyVars>>

\* ManagedThread.stop() called by the ConnRxThread itself (it has no override):
\* `if self is threading.current_thread(): raise RuntimeError`.
RxSelfStop ==
    /\ rpc = "loop"
    /\ nSelf < MaxSelfStop
    /\ nSelf' = nSelf + 1
    /\ UNCHANGED <<raised, pipeVars, epVars, mtVars, cnVars, pmVars, qVars, sVars, xVars, meVars, pyVars>>

\* ListenerThread.stop() called by the ListenerThread itself: its first
\* statement is `super().stop()`, which raises RuntimeError.
LSelfStop(t) ==
    /\ th[t].kind = "listener"
    /\ th[t].pc = "loop"
    /\ nSelf < MaxSelfStop
    /\ nSelf' = nSelf + 1
    /\ UNCHANGED <<raised, pipeVars, epVars, mtVars, cnVars, pmVars, qVars, sVars, xVars, meVars, pyVars>>

\* `self.conn.send(msg)` raises for a reason of its own (the message cannot be
\* pickled): `except Exception` logs it and breaks the loop, and leaving
\* `with self.conn` closes the Connection.
TxRaise(i) ==
    /\ tpc[i] = "send"
    /\ i \notin raised
    /\ raised' = raised \cup {i}
    /\ tmsg' = [tmsg EXCEPT ![i] = NoMsg]
    /\ tpc' = [tpc EXCEPT ![i] = "done"]
    /\ connC' = "closed"
    /\ UNCHANGED <<tx_queue, tx_cur, rx_queue, wire, connL, twait, rpc,
                   stop_signal, spc, stopCalls, nInit>>
    /\ UNCHANGED histVars
    /\ UNCHANGED <<nSelf, epVars, mtVars, cnVars, pmVars, qVars, sVars, xVars, meVars, pyVars>>

\* ===================================================== ManagedThread scopes
\* MtSpec: a ManagedThread (the unit), the thread that holds its scope with
\* `with unit:`, and the children the unit's run body registers with spawn().
MUnit == "P"
Kids == {"k1", "k2"}
MUnits == {MUnit} \cup Kids
\* How a block of code can end: by return, by an Exception, or by a
\* BaseException that is no Exception (KeyboardInterrupt, SystemExit).
Outcomes == {"return", "Exception", "BaseException"}

MtInit ==
    /\ m_hpc = "out"
    /\ m_hexc = "none"
    /\ m_prop = FALSE
    /\ m_ppc = "new"
    /\ m_pout = "none"
    /\ m_stack = <<>>
    /\ m_sig = [u \in MUnits |-> FALSE]
    /\ m_kpc = [k \in Kids |-> "new"]
    /\ m_spawned = <<>>
    /\ m_stopped = <<>>
    /\ m_unwinds = 0
    /\ m_pstop = 0
    /\ m_early = <<>>

mtRest == <<pipeVars, epVars, hsVars, cnVars, pmVars, qVars, sVars, xVars, meVars, pyVars>>

\* ManagedThread.__enter__: `super().start()`.
MEnter ==
    /\ m_hpc = "out"
    /\ m_hpc' = "body"
    /\ m_ppc' = "started"
    /\ UNCHANGED <<m_hexc, m_prop, m_pout, m_stack, m_sig, m_kpc, m_spawned,
                   m_stopped, m_unwinds, m_pstop>>
    /\ UNCHANGED mtRest

\* The body of the holder's with statement ends, one way or another.
MBodyEnd(o) ==
    /\ m_hpc = "body"
    /\ m_hpc' = "exit"
    /\ m_hexc' = o
    /\ UNCHANGED <<m_prop, m_ppc, m_pout, m_stack, m_sig, m_kpc, m_spawned,
                   m_stopped, m_unwinds, m_pstop>>
    /\ UNCHANGED mtRest

\* What ManagedThread.__exit__ returns: the tuple (exc_type, exc_value,
\* traceback), and how the with statement reads a return value: a tuple is
\* true unless it is empty.
ExitReturnNone(exc) == <<>>
ExitReturn(exc) == <<exc, exc, exc>>
Truthy(ret) == Len(ret) > 0

\* ManagedThread.__exit__ called for the unit by its holder: log the
\* exception if any, `self.stop(2)` (raise the signal, join for at most 2 s),
\* return the tuple.
MScopeExit ==
    /\ m_hpc = "exit"
    /\ m_hpc' = "after"
    /\ m_sig' = SetSignal(m_sig, MUnit, TRUE)
    /\ m_pstop' = m_pstop + 1
    /\ m_prop' = (m_hexc # "return" /\ ~Truthy(ExitReturn(m_hexc)))
    /\ UNCHANGED <<m_hexc, m_ppc, m_pout, m_stack, m_kpc, m_spawned, m_stopped,
                   m_unwinds>>
    /\ UNCHANGED mtRest

\* run_ctx.wrapper, entry: `self._exit_stack = ExitStack()` and the debug
\* callback pushed on it, then the run body.
MRunEntry ==
    /\ m_ppc = "started"
    /\ m_ppc' = "body"
    /\ m_stack' = <<"dbg">>
    /\ UNCHANGED <<m_hpc, m_hexc, m_prop, m_pout, m_sig, m_kpc, m_spawned,
                   m_stopped, m_unwinds, m_pstop>>
    /\ UNCHANGED mtRest

\* ManagedThread.spawn(child) from the run body:
\* `self._exit_stack.enter_context(child)` calls child.__enter__, which starts
\* the child, and pushes child.__exit__.
MSpawn(k) ==
    /\ m_ppc = "body"
    /\ m_kpc[k] = "new"
    /\ m_kpc' = [m_kpc EXCEPT ![k] = "run"]
    /\ m_stack' = Append(m_stack, k)
    /\ m_spawned' = Append(m_spawned, k)
    /\ UNCHANGED <<m_hpc, m_hexc, m_prop, m_ppc, m_pout, m_sig, m_stopped,
                   m_unwinds, m_pstop>>
    /\ UNCHANGED mtRest

\* spawn's `except Exception`: what it lets through to its caller.
SpawnEscapesAll(exc) == TRUE
SpawnEscapes(exc) == exc \notin {"Exception", "AttributeError", "RuntimeError"}

\* ManagedThread.spawn(child) before the run entry: _exit_stack is still None
\* (set by __init__), `self._exit_stack.enter_context(child)` raises
\* AttributeError before child.__enter__ is reached, and the except branch
\* logs it.
MSpawnEarly(k) ==
    /\ m_ppc \in {"new", "started"}
    /\ m_kpc[k] = "new"
    /\ Len(m_early) < MaxEarly
    /\ m_early' = Append(m_early, [kid |-> k, escaped |-> SpawnEscapes("AttributeError")])
    /\ UNCHANGED mtVars
    /\ UNCHANGED <<pipeVars, epVars, hsVars, cnVars, pmVars, qVars, sVars, xVars, pyVars>>

\* The run body ends; `except Exception` logs an Exception, and in every case
\* `finally: self._exit_stack.close()` begins.
MRunEnd(o) ==
    /\ m_ppc = "body"
    /\ m_ppc' = "unwind"
    /\ m_pout' = o
    /\ m_unwinds' = m_unwinds + 1
    /\ UNCHANGED <<m_hpc, m_hexc, m_prop, m_stack, m_sig, m_kpc, m_spawned,
                   m_stopped, m_pstop>>
    /\ UNCHANGED mtRest

\* ExitStack.close() calls its callbacks last in, first out.
StackBottom(st) == 1
StackTop(st) == Len(st)
\* One callback of the unwinding: a child's __exit__ calls child.stop(2) and
\* returns its (true) tuple; the debug callback logs.
MUnwind ==
    /\ m_ppc = "unwind"
    /\ m_stack # <<>>
    /\ LET n == StackTop(m_stack)
           cb == m_stack[n] IN
        /\ m_stack' = [j \in 1..(Len(m_stack) - 1) |->
                          IF j < n THEN m_stack[j] ELSE m_stack[j + 1]]
        /\ IF cb \in Kids
              THEN /\ m_sig' = SetSignal(m_sig, cb, TRUE)
                   /\ m_stopped' = Append(m_stopped, cb)
              ELSE UNCHANGED <<m_sig, m_stopped>>
    /\ UNCHANGED <<m_hpc, m_hexc, m_prop, m_ppc, m_pout, m_kpc, m_spawned,
                   m_unwinds, m_pstop>>
    /\ UNCHANGED mtRest

\* The wrapper returns (or the BaseException goes on to the thread's
\* excepthook): the thread is terminated.
MTerminate ==
    /\ m_ppc = "unwind"
    /\ m_stack = <<>>
    /\ m_ppc' = "terminated"
    /\ UNCHANGED <<m_hpc, m_hexc, m_prop, m_pout, m_stack, m_sig, m_kpc, m_spawned,
                   m_stopped, m_unwinds, m_pstop>>
    /\ UNCHANGED mtRest

\* A child's own run ends (on its stop signal or for a reason of its own).
MKidExit(k) ==
    /\ m_kpc[k] = "run"
    /\ m_kpc' = [m_kpc EXCEPT ![k] = "done"]
    /\ UNCHANGED <<m_hpc, m_hexc, m_prop, m_ppc, m_pout, m_stack, m_sig, m_spawned,
                   m_stopped, m_unwinds, m_pstop>>
    /\ UNCHANGED mtRest

MtNext ==
    \/ MEnter
    \/ \E o \in Outcomes : MBodyEnd(o)
    \/ MScopeExit
    \/ MRunEntry
    \/ \E k \in Kids : MSpawn(k)
    \/ \E o \in Outcomes : MRunEnd(o)
    \/ MUnwind
    \/ MTerminate
    \/ \E k \in Kids : MKidExit(k)
    \/ \E k \in Kids : MSpawnEarly(k)

\* =================================================== ClientThread.connect
\* ConnSpec: one ClientThread.connect(ep, timeout) call, with time in
\* milliseconds, made by ClientThread.run (timeout TIMEOUT) or by
\* ListenerThread.stop (timeout TIMEOUT*2).
TIMEOUT == 1000
InitialBackoff == 1
Timeouts == {TIMEOUT, TIMEOUT * 2}

RECURSIVE Pow2(_)
Pow2(n) == IF n = 0 THEN 1 ELSE 2 * Pow2(n - 1)

CnInit ==
    /\ c_pc = "idle"
    /\ c_timeout = 0
    /\ c_now = 0
    /\ c_backoff = 0
    /\ c_delays = <<>>
    /\ c_okAt = <<>>
    /\ c_thr = "new"
    /\ c_handlers = 0
    /\ c_escaped = FALSE

cnRest == <<pipeVars, epVars, hsVars, mtVars, pmVars, qVars, sVars, xVars, meVars, pyVars>>

\* connect() is entered: `start_time = monotonic()`, `backoff = 1/1000`.
CnCall(T) ==
    /\ c_pc = "idle"
    /\ c_pc' = "try"
    /\ c_timeout' = T
    /\ c_now' = 0
    /\ c_backoff' = InitialBackoff
    /\ c_thr' = IF T = TIMEOUT THEN "connect" ELSE "stopper"
    /\ UNCHANGED <<c_delays, c_okAt, c_handlers, c_escaped>>
    /\ UNCHANGED cnRest

\* One `Client(ep.sock_addr, authkey=...)`: after d ms it returns a
\* Connection or raises.
CnAttempt(d, ok) ==
    /\ c_pc = "try"
    /\ c_now' = c_now + d
    /\ IF ok
          THEN /\ c_pc' = "connected"
               /\ c_okAt' = <<c_now>>
          ELSE /\ c_pc' = "failed"
               /\ UNCHANGED c_okAt
    /\ UNCHANGED <<c_timeout, c_backoff, c_delays, c_thr, c_handlers, c_escaped>>
    /\ UNCHANGED cnRest

\* `if monotonic() - start_time > timeout`, and `backoff *= 2`.
AlwaysTimedOut(now, timeout) == TRUE
TimedOut(now, timeout) == now > timeout
Double(b) == b * 2

\* The except branch: ConnectionError once the timeout has elapsed, otherwise
\* `sleep(backoff)` and the doubling.
CnCheck ==
    /\ c_pc = "failed"
    /\ IF TimedOut(c_now, c_timeout)
          THEN /\ c_pc' = "error"
               /\ UNCHANGED <<c_now, c_backoff, c_delays>>
          ELSE /\ c_pc' = "try"
               /\ c_now' = c_now + c_backoff
               /\ c_delays' = Append(c_delays, c_backoff)
               /\ c_backoff' = Double(c_backoff)
    /\ UNCHANGED <<c_timeout, c_okAt, c_thr, c_handlers, c_escaped>>
    /\ UNCHANGED cnRest

\* ClientThread.run after connect returned: the default handler tuple
\* (ConnTxThread,) is spawned, then `self._stop_evt.wait()`.
CnRunConnected ==
    /\ c_thr = "connect"
    /\ c_pc = "connected"
    /\ c_thr' = "wait"
    /\ c_handlers' = c_handlers + 1
    /\ UNCHANGED <<c_pc, c_timeout, c_now, c_backoff, c_delays, c_okAt, c_escaped>>
    /\ UNCHANGED cnRest

\* The except clauses of ClientThread.run (ConnectionError, Exception) and of
\* ListenerThread.stop (ConnectionError).
RunCatches == {"ConnectionError", "Exception"}
StopCatches == {"ConnectionError"}

\* ClientThread.run, `except ConnectionError`: logged, `return`; the wrapper
\* closes the (empty) exit stack and the thread terminates.
CnRunError ==
    /\ c_thr = "connect"
    /\ c_pc = "error"
    /\ c_thr' = "done"
    /\ c_escaped' = ("ConnectionError" \notin RunCatches)
    /\ UNCHANGED <<c_pc, c_timeout, c_now, c_backoff, c_delays, c_okAt, c_handlers>>
    /\ UNCHANGED cnRest

\* The stop event is set: wait() returns, run returns, the thread terminates.
CnRunStop ==
    /\ c_thr = "wait"
    /\ c_thr' = "done"
    /\ UNCHANGED <<c_pc, c_timeout, c_now, c_backoff, c_delays, c_okAt, c_handlers,
                   c_escaped>>
    /\ UNCHANGED cnRest

\* ListenerThread.stop after its connect: the Connection is dropped, or the
\* ConnectionError is logged; stop goes on.
CnStopperDone ==
    /\ c_thr = "stopper"
    /\ c_pc \in {"connected", "error"}
    /\ c_thr' = "done"
    /\ c_escaped' = (c_pc = "error" /\ "ConnectionError" \notin StopCatches)
    /\ UNCHANGED <<c_pc, c_timeout, c_now, c_backoff, c_delays, c_okAt, c_handlers>>
    /\ UNCHANGED cnRest

CnNext ==
    \/ \E T \in Timeouts : CnCall(T)
    \/ \E d \in 0..MaxAttemptMs, ok \in BOOLEAN : CnAttempt(d, ok)
    \/ CnCheck
    \/ CnRunConnected
    \/ CnRunError
    \/ CnRunStop
    \/ CnStopperDone

\* ===================================================== ProcessManager.start
\* PmSpec: the class-level roster and lock of ManagedProcess, constructions
\* by concurrent callers and start() calls on ProcessManager instances.
Builders == {"b1", "b2"}
Managers == {"m1", "m2"}
ProcIds == 1..MaxProc

\* The entry of _exit_callbacks that stands for the 'log' Endpoint returned
\* by ep.listen(); the other entries are process ids.
LogCm == 0

PmInit ==
    /\ p_lock = FALSE
    /\ p_roster = <<>>
    /\ p_cpc = [b \in Builders |-> "idle"]
    /\ p_cnew = [b \in Builders |-> 0]
    /\ p_nproc = 0
    /\ p_spc = [m \in Managers |-> "idle"]
    /\ p_idx = [m \in Managers |-> 0]
    /\ p_nstart = [p \in ProcIds |-> 0]
    /\ p_calls = [m \in Managers |-> 0]
    /\ p_late = 0
    /\ p_race = FALSE
    /\ p_stack = [m \in Managers |-> <<>>]
    /\ p_order = <<>>
    /\ p_err = [m \in Managers |-> "none"]
    /\ p_entered = {}
    /\ p_lsn = FALSE
    /\ p_cbs = [m \in Managers |-> <<>>]
    /\ p_xpc = [m \in Managers |-> "open"]
    /\ p_rel = <<>>

pmRest == <<pipeVars, epVars, hsVars, mtVars, cnVars, qVars, sVars, xVars, meVars>>

\* `if self._lock: raise RuntimeError(...)` of ManagedProcess.__init__, and
\* `if ManagedProcess._lock: raise RuntimeError(...)` of ProcessManager.start.
LockIgnored(lock) == FALSE
LockBlocks(lock) == lock
StartAllowed(lock) == FALSE
StartRefused(lock) == lock

\* ProcessManager.__enter__: Endpoint("log", conn_handlers=(LogRxThread,)),
\* then `self.enter_context(ep.listen())`. The construction runs
\* Endpoint.__init__ on the cached instance and so clears its role: listen()
\* finds no role, attaches a ListenerThread and starts it, also when another
\* manager's Listener is already there.
PEnter(m) ==
    /\ m \notin p_entered
    /\ p_xpc[m] = "open"
    /\ p_lsn' = TRUE
    /\ p_entered' = p_entered \cup {m}
    /\ p_cbs' = [p_cbs EXCEPT ![m] = Append(@, LogCm)]
    /\ UNCHANGED <<p_xpc, p_rel>>
    /\ UNCHANGED <<p_lock, p_roster, p_cpc, p_cnew, p_nproc, p_spc, p_idx, p_nstart,
                   p_calls, p_late, p_race, p_stack, p_order, p_err>>
    /\ UNCHANGED pmRest

\* ManagedProcess.__init__ up to the check of the lock: RuntimeError, or on
\* to Process.__init__ and the attribute assignments.
PCtorCheck(b) ==
    /\ p_cpc[b] = "idle"
    /\ IF LockBlocks(p_lock)
          THEN /\ p_late < MaxLate
               /\ p_late' = p_late + 1
               /\ UNCHANGED <<p_cpc, p_cnew, p_nproc>>
          ELSE /\ p_nproc < MaxProc
               /\ p_nproc' = p_nproc + 1
               /\ p_cnew' = [p_cnew EXCEPT ![b] = p_nproc + 1]
               /\ p_cpc' = [p_cpc EXCEPT ![b] = "init"]
               /\ UNCHANGED p_late
    /\ UNCHANGED <<p_lock, p_roster, p_spc, p_idx, p_nstart, p_calls, p_race>>
    /\ UNCHANGED pxVars
    /\ UNCHANGED pyVars
    /\ UNCHANGED pmRest

\* `self.MANAGED_PROCESSES.append(self)`.
PCtorAppend(b) ==
    /\ p_cpc[b] = "init"
    /\ p_roster' = Append(p_roster, p_cnew[b])
    /\ p_cpc' = [p_cpc EXCEPT ![b] = "idle"]
    /\ p_cnew' = [p_cnew EXCEPT ![b] = 0]
    /\ UNCHANGED <<p_lock, p_nproc, p_spc, p_idx, p_nstart, p_calls, p_late, p_race>>
    /\ UNCHANGED pxVars
    /\ UNCHANGED pyVars
    /\ UNCHANGED pmRest

\* ProcessManager.start, the check of the lock.
PStartCheck(m) ==
    /\ p_spc[m] \in {"idle", "done", "failed"}
    /\ p_xpc[m] = "open"
    /\ p_calls[m] < MaxStartCalls
    /\ p_calls' = [p_calls EXCEPT ![m] = @ + 1]
    /\ IF StartRefused(p_lock)
          THEN /\ p_spc' = [p_spc EXCEPT ![m] = "failed"]
               /\ p_err' = [p_err EXCEPT ![m] = "RuntimeError"]
               /\ UNCHANGED p_race
          ELSE /\ p_spc' = [p_spc EXCEPT ![m] = "lock"]
               /\ p_err' = [p_err EXCEPT ![m] = "none"]
               /\ p_race' = (p_race \/ \E o \in Managers \ {m} : p_spc[o] = "lock")
    /\ UNCHANGED <<p_lock, p_roster, p_cpc, p_cnew, p_nproc, p_idx, p_nstart, p_late>>
    /\ UNCHANGED <<p_stack, p_order, p_entered, p_lsn>>
    /\ UNCHANGED pyVars
    /\ UNCHANGED pmRest

\* `ManagedProcess._lock = True`, then the for loop begins.
PStartLock(m) ==
    /\ p_spc[m] = "lock"
    /\ p_lock' = TRUE
    /\ p_spc' = [p_spc EXCEPT ![m] = "iter"]
    /\ p_idx' = [p_idx EXCEPT ![m] = 1]
    /\ UNCHANGED <<p_roster, p_cpc, p_cnew, p_nproc, p_nstart, p_calls, p_late, p_race>>
    /\ UNCHANGED pxVars
    /\ UNCHANGED pyVars
    /\ UNCHANGED pmRest

\* The entry the for loop over the list yields at its i-th round.
RosterEntryReversed(r, i) == r[Len(r) + 1 - i]
RosterEntry(r, i) == r[i]

\* What start() lets through to its caller when entering an entry's scope
\* raises: enter_context calls __enter__ outside any try, and __exit__ is
\* registered only after __enter__ has returned.
StartRaises(e) == e

\* One step of `for process in MANAGED_PROCESSES: self.enter_context(process)`
\* up to Process.start's `assert self._popen is None`: the loop ends, the
\* assertion fails and leaves start(), or the launch is next.
PStartIter(m) ==
    /\ p_spc[m] = "iter"
    /\ IF p_idx[m] > Len(p_roster)
          THEN /\ p_spc' = [p_spc EXCEPT ![m] = "done"]
               /\ UNCHANGED p_err
          ELSE IF p_nstart[RosterEntry(p_roster, p_idx[m])] > 0
                  THEN /\ p_spc' = [p_spc EXCEPT ![m] = "failed"]
                       /\ p_err' = [p_err EXCEPT ![m] = StartRaises("StartError")]
                  ELSE /\ p_spc' = [p_spc EXCEPT ![m] = "popen"]
                       /\ UNCHANGED p_err
    /\ UNCHANGED <<p_lock, p_roster, p_cpc, p_cnew, p_nproc, p_idx, p_nstart, p_calls,
                   p_late, p_race>>
    /\ UNCHANGED <<p_stack, p_order, p_entered, p_lsn>>
    /\ UNCHANGED pyVars
    /\ UNCHANGED pmRest

\* `self._popen = self._Popen(self)` inside ManagedProcess.__enter__: the OS
\* process is launched and enter_context pushes the entry's __exit__ on the
\* manager's stack, or the launch raises (the process object cannot be
\* pickled for the spawn start method, the OS refuses) and the exception
\* leaves __enter__, enter_context and start().
PStartPopen(m, ok) ==
    /\ p_spc[m] = "popen"
    /\ IF ok
          THEN /\ p_nstart' = [p_nstart EXCEPT ![RosterEntry(p_roster, p_idx[m])] = @ + 1]
               /\ p_order' = Append(p_order, RosterEntry(p_roster, p_idx[m]))
               /\ p_stack' = [p_stack EXCEPT ![m] = Append(@, RosterEntry(p_roster, p_idx[m]))]
               /\ p_cbs' = [p_cbs EXCEPT ![m] = Append(@, RosterEntry(p_roster, p_idx[m]))]
               /\ p_idx' = [p_idx EXCEPT ![m] = @ + 1]
               /\ p_spc' = [p_spc EXCEPT ![m] = "iter"]
               /\ UNCHANGED p_err
          ELSE /\ p_spc' = [p_spc EXCEPT ![m] = "failed"]
               /\ p_err' = [p_err EXCEPT ![m] = StartRaises("StartError")]
               /\ UNCHANGED <<p_nstart, p_order, p_stack, p_cbs, p_idx>>
    /\ UNCHANGED <<p_lock, p_roster, p_cpc, p_cnew, p_nproc, p_calls, p_late, p_race>>
    /\ UNCHANGED <<p_entered, p_lsn, p_xpc, p_rel>>
    /\ UNCHANGED pmRest

\* ProcessManager.__exit__ is ExitStack.__exit__: one round of its loop pops
\* the callback registered last and calls it. For a process that is
\* ManagedProcess.__exit__; for LogCm it is Endpoint.__exit__, which stops the
\* Listener. The with statement calls __exit__ only after __enter__ returned,
\* in the thread whose start() call, if any, has ended.
PExitPop(m) ==
    /\ m \in p_entered
    /\ p_spc[m] \in {"idle", "done", "failed"}
    /\ p_xpc[m] \in {"open", "unwinding"}
    /\ p_cbs[m] # <<>>
    /\ p_xpc' = [p_xpc EXCEPT ![m] = "unwinding"]
    /\ p_rel' = Append(p_rel, [mgr |-> m, cm |-> p_cbs[m][StackTop(p_cbs[m])]])
    /\ p_cbs' = [p_cbs EXCEPT ![m] = SubSeq(@, 1, Len(@) - 1)]
    /\ p_lsn' = IF p_cbs[m][StackTop(p_cbs[m])] = LogCm THEN FALSE ELSE p_lsn
    /\ UNCHANGED <<p_lock, p_roster, p_cpc, p_cnew, p_nproc, p_spc, p_idx, p_nstart,
                   p_calls, p_late, p_race, p_stack, p_order, p_err, p_entered>>
    /\ UNCHANGED pmRest

\* The loop of ExitStack.__exit__ finds no callback left; "[EXIT]" is logged.
PExitEnd(m) ==
    /\ p_xpc[m] = "unwinding"
    /\ p_cbs[m] = <<>>
    /\ p_xpc' = [p_xpc EXCEPT ![m] = "closed"]
    /\ UNCHANGED <<p_cbs, p_rel>>
    /\ UNCHANGED <<p_lock, p_roster, p_cpc, p_cnew, p_nproc, p_spc, p_idx, p_nstart,
                   p_calls, p_late, p_race, pxVars>>
    /\ UNCHANGED pmRest

PmNext ==
    \/ \E m \in Managers : PEnter(m)
    \/ \E b \in Builders : PCtorCheck(b)
    \/ \E b \in Builders : PCtorAppend(b)
    \/ \E m \in Managers : PStartCheck(m)
    \/ \E m \in Managers : PStartLock(m)
    \/ \E m \in Managers : PStartIter(m)
    \/ \E m \in Managers, ok \in BOOLEAN : PStartPopen(m, ok)
    \/ \E m \in Managers : PExitPop(m)
    \/ \E m \in Managers : PExitEnd(m)

\* ============================================== ManagedProcess scopes and run
\* ProcSpec: started ManagedProcesses, each with the holder of its scope (the
\* manager's stack or a `with process:`), the child's run(), and one
\* wait_processes call.
QProcs == {"p1", "p2"}
\* ManagedProcess.TIMEOUT, in seconds.
PTIMEOUT == 1
\* How the child's try block can end: task() returns, raises an Exception,
\* a KeyboardInterrupt or another BaseException, or _process_setup raises.
TaskOutcomes == {"return", "Exception", "KeyboardInterrupt", "SystemExit", "SetupError"}

QInit ==
    /\ q_rpc = [p \in QProcs |-> "new"]
    /\ q_res = [p \in QProcs |-> <<>>]
    /\ q_acq = [p \in QProcs |-> <<>>]
    /\ q_rel = [p \in QProcs |-> <<>>]
    /\ q_closes = [p \in QProcs |-> 0]
    /\ q_out = [p \in QProcs |-> "none"]
    /\ q_hpc = [p \in QProcs |-> "out"]
    /\ q_hexc = [p \in QProcs |-> "none"]
    /\ q_live = [p \in QProcs |-> FALSE]
    /\ q_join = [p \in QProcs |-> <<>>]
    /\ q_prop = [p \in QProcs |-> FALSE]
    /\ q_wpc = "idle"
    /\ q_wset = {}
    /\ q_wtimed = FALSE
    /\ q_wdue = FALSE

qRest == <<pipeVars, epVars, hsVars, mtVars, cnVars, pmVars, sVars, xVars, meVars, pyVars>>

\* Process.is_alive() as the parent sees it.
IsAlive(p) == q_rpc[p] \in {"setup", "task", "close"}

\* ManagedProcess.__enter__: `self.start()`; the child begins run().
QEnter(p) ==
    /\ q_hpc[p] = "out"
    /\ q_rpc[p] = "new"
    /\ q_hpc' = [q_hpc EXCEPT ![p] = "body"]
    /\ q_rpc' = [q_rpc EXCEPT ![p] = "setup"]
    /\ UNCHANGED <<q_res, q_acq, q_rel, q_closes, q_out, q_hexc, q_live, q_join,
                   q_prop, q_wpc, q_wset, q_wtimed, q_wdue>>
    /\ UNCHANGED qRest

\* The body of the holder's with statement ends, one way or another.
QBodyEnd(p, o) ==
    /\ q_hpc[p] = "body"
    /\ q_hpc' = [q_hpc EXCEPT ![p] = "exit"]
    /\ q_hexc' = [q_hexc EXCEPT ![p] = o]
    /\ UNCHANGED <<q_rpc, q_res, q_acq, q_rel, q_closes, q_out, q_live, q_join, q_prop,
                   q_wpc, q_wset, q_wtimed, q_wdue>>
    /\ UNCHANGED qRest

\* What ManagedProcess.__exit__ returns, and the join it makes.
ProcExitReturnNone(exc) == FALSE
ProcExitReturn(exc) == TRUE
JoinTimeout(alive) == IF alive THEN <<PTIMEOUT>> ELSE <<>>

\* ManagedProcess.__exit__: `if self.is_alive(): self.join(timeout=self.TIMEOUT)`,
\* `return True`. The join returns when the child has exited or after TIMEOUT,
\* whichever comes first; it does nothing to the child.
QScopeExit(p) ==
    /\ q_hpc[p] = "exit"
    /\ q_hpc' = [q_hpc EXCEPT ![p] = "after"]
    /\ q_live' = [q_live EXCEPT ![p] = IsAlive(p)]
    /\ q_join' = [q_join EXCEPT ![p] = JoinTimeout(IsAlive(p))]
    /\ q_prop' = [q_prop EXCEPT ![p] = (q_hexc[p] # "return" /\ ~ProcExitReturn(q_hexc[p]))]
    /\ UNCHANGED <<q_rpc, q_res, q_acq, q_rel, q_closes, q_out, q_hexc, q_wpc, q_wset,
                   q_wtimed, q_wdue>>
    /\ UNCHANGED qRest

\* ManagedProcess._process_setup in the child: `self.exit_stack = ExitStack()`,
\* init_log_config() enters the log EndpointHandler on it, _set_scheduler();
\* or init_log_config raises after the stack was made.
QSetup(p, ok) ==
    /\ q_rpc[p] = "setup"
    /\ IF ok
          THEN /\ q_rpc' = [q_rpc EXCEPT ![p] = "task"]
               /\ q_res' = [q_res EXCEPT ![p] = <<"log">>]
               /\ q_acq' = [q_acq EXCEPT ![p] = <<"log">>]
               /\ UNCHANGED <<q_out, q_closes>>
          ELSE /\ q_rpc' = [q_rpc EXCEPT ![p] = "close"]
               /\ q_out' = [q_out EXCEPT ![p] = "SetupError"]
               /\ q_closes' = [q_closes EXCEPT ![p] = @ + 1]
               /\ UNCHANGED <<q_res, q_acq>>
    /\ UNCHANGED <<q_rel, q_hpc, q_hexc, q_live, q_join, q_prop, q_wpc, q_wset,
                   q_wtimed, q_wdue>>
    /\ UNCHANGED qRest

\* task() enters a resource of its own on self.exit_stack.
QAcquire(p) ==
    /\ q_rpc[p] = "task"
    /\ Len(q_acq[p]) < MaxRes
    /\ q_res' = [q_res EXCEPT ![p] = Append(@, "r1")]
    /\ q_acq' = [q_acq EXCEPT ![p] = Append(@, "r1")]
    /\ UNCHANGED <<q_rpc, q_rel, q_closes, q_out, q_hpc, q_hexc, q_live, q_join,
                   q_prop, q_wpc, q_wset, q_wtimed, q_wdue>>
    /\ UNCHANGED qRest

\* task() ends: `except KeyboardInterrupt` and `except Exception` log, any
\* other BaseException goes on; in every case `finally:
\* self.exit_stack.close()` begins.
QTaskEnd(p, o) ==
    /\ q_rpc[p] = "task"
    /\ q_rpc' = [q_rpc EXCEPT ![p] = "close"]
    /\ q_out' = [q_out EXCEPT ![p] = o]
    /\ q_closes' = [q_closes EXCEPT ![p] = @ + 1]
    /\ UNCHANGED <<q_res, q_acq, q_rel, q_hpc, q_hexc, q_live, q_join, q_prop, q_wpc,
                   q_wset, q_wtimed, q_wdue>>
    /\ UNCHANGED qRest

\* One callback of exit_stack.close(), last in first out.
QRelease(p) ==
    /\ q_rpc[p] = "close"
    /\ q_res[p] # <<>>
    /\ LET n == StackTop(q_res[p]) IN
        /\ q_rel' = [q_rel EXCEPT ![p] = Append(@, q_res[p][n])]
        /\ q_res' = [q_res EXCEPT ![p] =
                        [j \in 1..(Len(q_res[p]) - 1) |->
                            IF j < n THEN q_res[p][j] ELSE q_res[p][j + 1]]]
    /\ UNCHANGED <<q_rpc, q_acq, q_closes, q_out, q_hpc, q_hexc, q_live, q_join,
                   q_prop, q_wpc, q_wset, q_wtimed, q_wdue>>
    /\ UNCHANGED qRest

\* run() is left and the child's OS process exits.
QExited(p) ==
    /\ q_rpc[p] = "close"
    /\ q_res[p] = <<>>
    /\ q_rpc' = [q_rpc EXCEPT ![p] = "exited"]
    /\ UNCHANGED <<q_res, q_acq, q_rel, q_closes, q_out, q_hpc, q_hexc, q_live, q_join,
                   q_prop, q_wpc, q_wset, q_wtimed, q_wdue>>
    /\ UNCHANGED qRest

\* ProcessManager.wait_processes(timeout): the sentinels of the processes
\* that are alive now are handed to multiprocessing.connection.wait.
QWait(timed) ==
    /\ q_wpc = "idle"
    /\ q_wpc' = "waiting"
    /\ q_wset' = {p \in QProcs : IsAlive(p)}
    /\ q_wtimed' = timed
    /\ UNCHANGED <<q_rpc, q_res, q_acq, q_rel, q_closes, q_out, q_hpc, q_hexc, q_live,
                   q_join, q_prop, q_wdue>>
    /\ UNCHANGED qRest

\* connection.wait returns as soon as one of its objects is ready: the
\* sentinel of a process is ready once the process has exited.
WaitReady(ps) == \E p \in ps : ~IsAlive(p)

QWaitReturn ==
    /\ q_wpc = "waiting"
    /\ WaitReady(q_wset)
    /\ q_wpc' = "returned"
    /\ UNCHANGED <<q_rpc, q_res, q_acq, q_rel, q_closes, q_out, q_hpc, q_hexc, q_live,
                   q_join, q_prop, q_wset, q_wtimed, q_wdue>>
    /\ UNCHANGED qRest

\* The timeout of the wait elapses.
QWaitTimeout ==
    /\ q_wpc = "waiting"
    /\ q_wtimed
    /\ q_wpc' = "returned"
    /\ q_wdue' = TRUE
    /\ UNCHANGED <<q_rpc, q_res, q_acq, q_rel, q_closes, q_out, q_hpc, q_hexc, q_live,
                   q_join, q_prop, q_wset, q_wtimed>>
    /\ UNCHANGED qRest

QNext ==
    \/ \E p \in QProcs : QEnter(p)
    \/ \E p \in QProcs, o \in Outcomes : QBodyEnd(p, o)
    \/ \E p \in QProcs : QScopeExit(p)
    \/ \E p \in QProcs, ok \in BOOLEAN : QSetup(p, ok)
    \/ \E p \in QProcs : QAcquire(p)
    \/ \E p \in QProcs, o \in TaskOutcomes \ {"SetupError"} : QTaskEnd(p, o)
    \/ \E p \in QProcs : QRelease(p)
    \/ \E p \in QProcs : QExited(p)
    \/ \E timed \in BOOLEAN : QWait(timed)
    \/ QWaitReturn
    \/ QWaitTimeout

BaseInit == PipeInit /\ EpInit /\ HsInit /\ MtInit /\ CnInit /\ PmInit /\ QInit

\* ============================================== ManagedProcess._set_scheduler
\* SchedSpec: one call of _set_scheduler for every requested (policy,
\* priority) and every scheduler the process can have before the call.
\* MaxPrio stands for the highest real-time priority the OS reports.
MaxPrio == 3
Policies == {"SCHED_OTHER", "SCHED_FIFO", "SCHED_RR"}
\* os.sched_get_priority_min / os.sched_get_priority_max.
PrioMin(pol) == IF pol = "SCHED_OTHER" THEN 0 ELSE 1
PrioMax(pol) == IF pol = "SCHED_OTHER" THEN 0 ELSE MaxPrio
SchedParams == {[policy |-> pol, prio |-> n] : pol \in Policies, n \in 0..MaxPrio}
ValidSched == {s \in SchedParams : PrioMin(s.policy) <= s.prio /\ s.prio <= PrioMax(s.policy)}
Requested == 0..(MaxPrio + 1)
IntMax(a, b) == IF a >= b THEN a ELSE b
IntMin(a, b) == IF a <= b THEN a ELSE b
\* `max(min_prio, min(max_prio, priority))`.
Clamp(pol, n) == IntMax(PrioMin(pol), IntMin(PrioMax(pol), n))

\* The scheduler part at rest: no sched_policy, no call made.
ScInit ==
    /\ s_pc = "idle"
    /\ s_policy = "None"
    /\ s_prio = 0
    /\ s_cur = [policy |-> "SCHED_OTHER", prio |-> 0]
    /\ s_eff = [policy |-> "SCHED_OTHER", prio |-> 0]
    /\ s_set = FALSE
    /\ s_warned = FALSE
    /\ s_error = "none"

\* self.sched_policy as given to the constructor (None or a pair) and the
\* scheduler the child has when _set_scheduler reads it.
ScInputs ==
    /\ s_pc = "idle"
    /\ s_policy \in Policies \cup {"None"}
    /\ s_prio \in Requested
    /\ s_cur \in ValidSched
    /\ s_eff = s_cur
    /\ s_set = FALSE
    /\ s_warned = FALSE
    /\ s_error = "none"

sRest == <<pipeVars, epVars, hsVars, mtVars, cnVars, pmVars, qVars, xVars, meVars, pyVars>>

\* The walrus condition: `(min_prio := min(...)) > priority or (max_prio :=
\* max(...)) < priority`. When the left side is true the right side is not
\* evaluated and max_prio stays unbound.
BelowMin(pol, n) == PrioMin(pol) > n
AboveMax(pol, n) == PrioMax(pol) < n
MaxPrioBound(pol, n) == ~BelowMin(pol, n)

\* _set_scheduler, whole: osok is whether os.sched_setscheduler is permitted,
\* affok whether os.sched_setaffinity(pid, [3]) succeeds. Every Exception in
\* the try block is logged as an error and ends the call.
SSetScheduler(osok, affok) ==
    /\ s_pc = "idle"
    /\ s_pc' = "done"
    /\ IF s_policy = "None"
          THEN UNCHANGED <<s_eff, s_set, s_warned, s_error>>
          ELSE LET out == BelowMin(s_policy, s_prio) \/ AboveMax(s_policy, s_prio)
                   priority == IF out THEN Clamp(s_policy, s_prio) ELSE s_prio
                   differs == s_cur.policy # s_policy \/ s_cur.prio # priority
               IN  IF out /\ ~MaxPrioBound(s_policy, s_prio)
                      THEN /\ s_error' = "UnboundLocalError"
                           /\ UNCHANGED <<s_eff, s_set, s_warned>>
                      ELSE /\ s_warned' = out
                           /\ IF ~differs
                                 THEN UNCHANGED <<s_eff, s_set, s_error>>
                                 ELSE IF ~osok
                                 THEN /\ s_error' = "PermissionError"
                                      /\ UNCHANGED <<s_eff, s_set>>
                                 ELSE /\ s_eff' = [policy |-> s_policy, prio |-> priority]
                                      /\ s_set' = TRUE
                                      /\ s_error' = IF affok THEN "none" ELSE "OSError"
    /\ UNCHANGED <<s_policy, s_prio, s_cur>>
    /\ UNCHANGED sRest

SchedNext == \E osok \in BOOLEAN, affok \in BOOLEAN : SSetScheduler(osok, affok)

\* =============================================== ListenerThread accept loop
\* AcceptSpec: one ListenerThread with its configured handler classes, the
\* clients that connect to its socket, and one ListenerThread.stop call.
\* The classes that are subclasses of ConnHandlerThread, and one that is not.
HandlerClasses == {"ConnRxThread", "LogRxThread"}
ConfigClasses == HandlerClasses \cup {"NotAHandler"}
\* conn_handlers tuples the constructor accepts: an empty one raises ValueError.
Configs == UNION {[1..n -> ConfigClasses] : n \in 1..MaxCfg}

LInit ==
    /\ l_cfg = <<>>
    /\ l_pc = "new"
    /\ l_sig = FALSE
    /\ l_idx = 0
    /\ l_conn = 0
    /\ l_pending = <<>>
    /\ l_kind = <<>>
    /\ l_spawned = <<>>
    /\ l_skipped = <<>>
    /\ l_stoppc = "idle"

lRest == <<pipeVars, epVars, hsVars, mtVars, cnVars, pmVars, qVars, sVars, kVars, nVars, meVars, pyVars>>

\* ListenerThread(endpoint, conn_handlers=cfg) is constructed and started, and
\* its run binds the socket.
LsStart(cfg) ==
    /\ l_pc = "new"
    /\ l_cfg' = cfg
    /\ l_pc' = "loop"
    /\ UNCHANGED <<l_sig, l_idx, l_conn, l_pending, l_kind, l_spawned, l_skipped,
                   l_stoppc>>
    /\ UNCHANGED lRest

\* `while not self.stop_signal:`.
LsLoop ==
    /\ l_pc = "loop"
    /\ l_pc' = IF l_sig THEN "done" ELSE "accept"
    /\ UNCHANGED <<l_cfg, l_sig, l_idx, l_conn, l_pending, l_kind, l_spawned,
                   l_skipped, l_stoppc>>
    /\ UNCHANGED lRest

\* A client opens a connection to the socket.
LsClient ==
    /\ l_pc \in {"loop", "accept", "spawn"}
    /\ Len(l_kind) + Len(l_pending) < MaxConn
    /\ l_pending' = Append(l_pending, "client")
    /\ UNCHANGED <<l_cfg, l_pc, l_sig, l_idx, l_conn, l_kind, l_spawned, l_skipped,
                   l_stoppc>>
    /\ UNCHANGED lRest

\* `conn = listener.accept()`, then the for loop over _conn_handlers begins.
LsAccept ==
    /\ l_pc = "accept"
    /\ l_pending # <<>>
    /\ l_pending' = Tail(l_pending)
    /\ l_kind' = Append(l_kind, Head(l_pending))
    /\ l_conn' = l_conn + 1
    /\ l_idx' = 1
    /\ l_pc' = "spawn"
    /\ UNCHANGED <<l_cfg, l_sig, l_spawned, l_skipped, l_stoppc>>
    /\ UNCHANGED lRest

\* `issubclass(handler_class, ConnHandlerThread)`.
IsSubclassAny(cls) == TRUE
IsSubclass(cls) == cls \in HandlerClasses

\* One round of `for handler_class in self._conn_handlers:`: the class is
\* skipped with an error, or `self.spawn(handler_class(endpoint=self.endpoint,
\* connection=conn))`; after the last class the while loop goes on.
LsSpawn ==
    /\ l_pc = "spawn"
    /\ IF l_idx > Len(l_cfg)
          THEN /\ l_pc' = "loop"
               /\ UNCHANGED <<l_idx, l_spawned, l_skipped>>
          ELSE /\ l_idx' = l_idx + 1
               /\ IF IsSubclass(l_cfg[l_idx])
                     THEN /\ l_spawned' = Append(l_spawned,
                                 [conn |-> l_conn, cls |-> l_cfg[l_idx], ep |-> "self.endpoint"])
                          /\ UNCHANGED l_skipped
                     ELSE /\ l_skipped' = Append(l_skipped, [conn |-> l_conn, cls |-> l_cfg[l_idx]])
                          /\ UNCHANGED l_spawned
               /\ UNCHANGED l_pc
    /\ UNCHANGED <<l_cfg, l_sig, l_conn, l_pending, l_kind, l_stoppc>>
    /\ UNCHANGED lRest

\* ListenerThread.stop: `super().stop()` raises the stop signal.
LsStopSignal ==
    /\ l_stoppc = "idle"
    /\ l_pc # "new"
    /\ l_sig' = TRUE
    /\ l_stoppc' = "connect"
    /\ UNCHANGED <<l_cfg, l_pc, l_idx, l_conn, l_pending, l_kind, l_spawned, l_skipped>>
    /\ UNCHANGED lRest

\* ListenerThread.stop: `ClientThread.connect(self.endpoint, self.TIMEOUT*2)`
\* opens the throwaway connection while the socket exists; otherwise the
\* ConnectionError is logged.
LsStopConnect ==
    /\ l_stoppc = "connect"
    /\ l_stoppc' = "done"
    /\ IF l_pc # "done"
          THEN l_pending' = Append(l_pending, "throwaway")
          ELSE UNCHANGED l_pending
    /\ UNCHANGED <<l_cfg, l_pc, l_sig, l_idx, l_conn, l_kind, l_spawned, l_skipped>>
    /\ UNCHANGED lRest

AcceptNext ==
    \/ \E cfg \in Configs : LsStart(cfg)
    \/ LsLoop
    \/ LsClient
    \/ LsAccept
    \/ LsSpawn
    \/ LsStopSignal
    \/ LsStopConnect

\* ================================================ ClientThread after connect
\* ClientSpec: one ClientThread from its connection on, the handler threads it
\* spawns for the connection, and the callers of Endpoint.send and stop.
KHandlers == {"h1", "h2"}

KInit ==
    /\ k_pc = "new"
    /\ k_sig = FALSE
    /\ k_nconn = 0
    /\ k_h = [h \in KHandlers |-> "none"]
    /\ k_conn = "none"
    /\ k_mbox = <<>>
    /\ k_nsent = 0
    /\ k_wire = <<>>
    /\ k_lostAt = <<>>

kRest == <<pipeVars, epVars, hsVars, mtVars, cnVars, pmVars, qVars, sVars, lVars, nVars, meVars, pyVars>>

\* `conn = ClientThread.connect(self.endpoint, self.TIMEOUT)` returns a
\* Connection, or raises and run returns.
KConnect(ok) ==
    /\ k_pc = "new"
    /\ IF ok
          THEN /\ k_pc' = "spawn"
               /\ k_nconn' = k_nconn + 1
               /\ k_conn' = "up"
          ELSE /\ k_pc' = "done"
               /\ UNCHANGED <<k_nconn, k_conn>>
    /\ UNCHANGED <<k_sig, k_h, k_mbox, k_nsent, k_wire, k_lostAt>>
    /\ UNCHANGED kRest

\* One round of `for handler_class in self._conn_handlers:`: the next handler
\* is spawned on the connection.
KSpawn(h) ==
    /\ k_pc = "spawn"
    /\ k_h[h] = "none"
    /\ h = "h2" => k_h["h1"] # "none"
    /\ k_h' = [k_h EXCEPT ![h] = "run"]
    /\ UNCHANGED <<k_pc, k_sig, k_nconn, k_conn, k_mbox, k_nsent, k_wire, k_lostAt>>
    /\ UNCHANGED kRest

\* The for loop is through (one or two handlers configured):
\* `self._stop_evt.wait()` begins.
KSpawnEnd ==
    /\ k_pc = "spawn"
    /\ k_h["h1"] # "none"
    /\ k_pc' = "wait"
    /\ UNCHANGED <<k_sig, k_nconn, k_h, k_conn, k_mbox, k_nsent, k_wire, k_lostAt>>
    /\ UNCHANGED kRest

\* Event.wait() returns when the event is set, and for no other reason.
StopEvtWaitAny(sig) == TRUE
StopEvtWait(sig) == sig

\* `self._stop_evt.wait()` returns; run returns and the wrapper begins to
\* close the exit stack.
KWaitReturn ==
    /\ k_pc = "wait"
    /\ StopEvtWait(k_sig)
    /\ k_pc' = "unwind"
    /\ UNCHANGED <<k_sig, k_nconn, k_h, k_conn, k_mbox, k_nsent, k_wire, k_lostAt>>
    /\ UNCHANGED kRest

\* stop() on the Client raises its stop signal.
KStop ==
    /\ k_pc # "new"
    /\ ~k_sig
    /\ k_sig' = TRUE
    /\ UNCHANGED <<k_pc, k_nconn, k_h, k_conn, k_mbox, k_nsent, k_wire, k_lostAt>>
    /\ UNCHANGED kRest

\* The exit stack calls stop(2) on a handler, last spawned first:
\* ConnTxThread.stop puts the sentinel and raises the handler's signal. After
\* the last one the Client thread terminates.
KUnwind ==
    /\ k_pc = "unwind"
    /\ IF k_h["h2"] = "run"
          THEN /\ k_h' = [k_h EXCEPT !["h2"] = "stopped"]
               /\ k_mbox' = Append(k_mbox, 0)
               /\ UNCHANGED k_pc
          ELSE IF k_h["h1"] = "run"
          THEN /\ k_h' = [k_h EXCEPT !["h1"] = "stopped"]
               /\ k_mbox' = Append(k_mbox, 0)
               /\ UNCHANGED k_pc
          ELSE /\ k_pc' = "done"
               /\ UNCHANGED <<k_h, k_mbox>>
    /\ UNCHANGED <<k_sig, k_nconn, k_conn, k_nsent, k_wire, k_lostAt>>
    /\ UNCHANGED kRest

\* Endpoint.send: the message goes to the tail of the outbound mailbox.
KSend ==
    /\ k_nsent < MaxKSend
    /\ k_nsent' = k_nsent + 1
    /\ k_mbox' = Append(k_mbox, k_nsent + 1)
    /\ UNCHANGED <<k_pc, k_sig, k_nconn, k_h, k_conn, k_wire, k_lostAt>>
    /\ UNCHANGED kRest

\* The peer closes the connection or it breaks.
KLost ==
    /\ k_conn = "up"
    /\ k_conn' = "lost"
    /\ k_lostAt' = <<k_nsent>>
    /\ UNCHANGED <<k_pc, k_sig, k_nconn, k_h, k_mbox, k_nsent, k_wire>>
    /\ UNCHANGED kRest

\* One round of ConnTxThread.run: `msg = self.endpoint._tx_queue.get()`, then
\* the sentinel breaks the loop, or `self.conn.send(msg)` transmits, or it
\* raises on the lost connection, which is logged and breaks the loop. Leaving
\* `with self.conn:` closes the connection. A handler whose signal is raised
\* leaves at the next test of the while condition.
KForward(h) ==
    /\ k_h[h] \in {"run", "stopped"}
    /\ k_mbox # <<>>
    /\ k_mbox' = Tail(k_mbox)
    /\ LET msg == Head(k_mbox)
           goes == msg # 0 /\ k_conn = "up"
           stays == goes /\ k_h[h] = "run"
       IN  /\ k_wire' = IF goes THEN Append(k_wire, msg) ELSE k_wire
           /\ k_h' = [k_h EXCEPT ![h] = IF stays THEN "run" ELSE "done"]
           /\ k_conn' = IF stays THEN k_conn ELSE "lost"
           /\ k_lostAt' = IF ~stays /\ k_conn = "up" THEN <<k_nsent>> ELSE k_lostAt
    /\ UNCHANGED <<k_pc, k_sig, k_nconn, k_nsent>>
    /\ UNCHANGED kRest

\* A handler whose signal was raised while it was at the head of its loop:
\* `while not self.stop_signal` ends the loop without a get.
KSeeStop(h) ==
    /\ k_h[h] = "stopped"
    /\ k_h' = [k_h EXCEPT ![h] = "done"]
    /\ k_conn' = "lost"
    /\ k_lostAt' = IF k_conn = "up" THEN <<k_nsent>> ELSE k_lostAt
    /\ UNCHANGED <<k_pc, k_sig, k_nconn, k_mbox, k_nsent, k_wire>>
    /\ UNCHANGED kRest

ClientNext ==
    \/ \E ok \in BOOLEAN : KConnect(ok)
    \/ \E h \in KHandlers : KSpawn(h)
    \/ KSpawnEnd
    \/ KWaitReturn
    \/ KStop
    \/ KUnwind
    \/ KSend
    \/ KLost
    \/ \E h \in KHandlers : KForward(h)
    \/ \E h \in KHandlers : KSeeStop(h)

\* ===================================================== generated unit names
\* NameSpec: units of several classes are constructed one after another.
\* ManagedThread defines NAME_BASE and _instance_cnt; ConnHandlerThread is a
\* subclass that defines neither; ConnRxThread is a subclass of
\* ConnHandlerThread with a NAME_BASE of its own.
MaxUnits == 5
NameClasses == {"ManagedThread", "ConnHandlerThread", "ConnRxThread"}
\* The base class of a class; ManagedThread's bases have neither attribute.
ParentClass(c) ==
    IF c = "ConnRxThread" THEN "ConnHandlerThread" ELSE "ManagedThread"
\* NAME_BASE in the class's own namespace, <<>> when it has none.
OwnNameBase(c) ==
    IF c = "ManagedThread" THEN <<"MThread">>
    ELSE IF c = "ConnRxThread" THEN <<"ConnRx">> ELSE <<>>
\* Attribute lookup along the classes' method resolution order: own maps
\* each class to <<value>> or to <<>>.
RECURSIVE GetAttr(_, _)
GetAttr(own, c) ==
    IF own[c] # <<>> THEN own[c][1]
    ELSE IF c = "ManagedThread" THEN 0
    ELSE GetAttr(own, ParentClass(c))
NameBase(c) == GetAttr([d \in NameClasses |-> OwnNameBase(d)], c)

\* After the class statements: only ManagedThread has _instance_cnt.
NInit ==
    /\ n_cnt = [c \in NameClasses |-> IF c = "ManagedThread" THEN <<0>> ELSE <<>>]
    /\ n_names = <<>>

nRest == <<pipeVars, epVars, hsVars, mtVars, cnVars, pmVars, qVars, sVars, lVars, kVars, meVars, pyVars>>

\* ManagedThread.__init__ of a new unit of class c, with _default_name:
\* `cls._instance_cnt += 1` reads the attribute through the class hierarchy
\* and assigns it in c's own namespace; the name is f"{NAME_BASE}-{cnt}",
\* kept as the pair of its two parts.
NConstruct(c) ==
    /\ Len(n_names) < MaxUnits
    /\ LET cnt == GetAttr(n_cnt, c) + 1
       IN  /\ n_cnt' = [n_cnt EXCEPT ![c] = <<cnt>>]
           /\ n_names' = Append(n_names, [cls |-> c, name |-> <<NameBase(c), cnt>>])
    /\ UNCHANGED nRest

NameNext == \E c \in NameClasses : NConstruct(c)

XInit == LInit /\ KInit /\ NInit

Init == BaseInit /\ ScInit /\ XInit

EpSpec == Init /\ [][EpNext]_vars

\* ------------------------------------------------------------------- Next
Next ==
    \/ \E v \in Payloads : Send(v)
    \/ Recv
    \/ \E side \in {"C", "L"} : Construct(side)
    \/ \E i \in TxIds : TxSpawn(i)
    \/ \E i \in TxIds : TxLoop(i)
    \/ \E i \in TxIds : TxGet(i)
    \/ \E i \in TxIds : TxSend(i)
    \/ \E i \in TxIds : StopPut(i)
    \/ \E i \in TxIds : StopSuper(i)
    \/ RxSpawn
    \/ RxLoop
    \/ RxRecv
    \/ \E u \in Units : Stop(u)

Spec == Init /\ [][Next]_vars

\* Every thread that can take a step eventually takes one; a caller inside
\* stop() finishes it. Callers of send/recv/stop are under no obligation.
Fairness ==
    /\ \A i \in TxIds : WF_vars(TxLoop(i)) /\ WF_vars(TxGet(i)) /\ WF_vars(TxSend(i))
    /\ \A i \in TxIds : WF_vars(StopSuper(i))
    /\ WF_vars(RxLoop) /\ WF_vars(RxRecv)

FairSpec == Spec /\ Fairness

\* Stop commands and stop_signal assignments on started units, with the loop
\* heads that read the signal.
SigNext ==
    \/ \E i \in TxIds : TxSpawn(i)
    \/ \E i \in TxIds : TxLoop(i)
    \/ \E i \in TxIds : TxGet(i)
    \/ \E i \in TxIds : StopPut(i)
    \/ \E i \in TxIds : StopSuper(i)
    \/ RxSpawn
    \/ RxLoop
    \/ \E u \in Units : Stop(u)
    \/ \E u \in Units, value \in BOOLEAN : AssignStopSignal(u, value)

SigSpec == Init /\ [][SigNext]_vars

\* One address with its Listener and Client roles, and the scheduling the
\* liveness of Listener shutdown rests on: a started Listener thread keeps
\* running, and a stop() in progress goes on to its unblocking connect.
ListenNext ==
    \/ EpConstruct("e1")
    \/ \E u \in Callers, kind \in {"listener", "client"} : RoleCheck(u, "e1", kind)
    \/ \E u \in Callers : RoleAttach(u)
    \/ \E u \in Callers : RoleStart(u)
    \/ \E u \in Callers : ExitBegin(u, "e1")
    \/ \E u \in Callers : ExitConn(u)
    \/ \E u \in Callers : ExitHandshake(u)
    \/ \E u \in Callers : ExitJoin(u)
    \/ \E u \in Callers : ExitRelease(u)
    \/ \E t \in TIds : LBind(t)
    \/ \E t \in TIds : LLoop(t)
    \/ \E t \in TIds : LAccept(t)
    \/ \E t \in TIds : CConnect(t)
    \/ \E t \in TIds : CSpawn(t)
    \/ \E t \in TIds : CWait(t)

ListenFairness ==
    /\ \A t \in TIds : WF_vars(LLoop(t)) /\ WF_vars(LAccept(t))
    /\ \A u \in Callers : WF_vars(ExitConn(u))

ListenSpec == Init /\ [][ListenNext]_vars /\ ListenFairness

\* A thread that calls stop() on itself: the forwarders of one connection and
\* the Listener of one address.
SelfNext ==
    \/ \E v \in Payloads : Send(v)
    \/ \E i \in TxIds : TxSpawn(i)
    \/ \E i \in TxIds : TxLoop(i)
    \/ \E i \in TxIds : TxGet(i)
    \/ \E i \in TxIds : TxSend(i)
    \/ RxSpawn
    \/ RxLoop
    \/ \E i \in TxIds : TxSelfStop(i)
    \/ RxSelfStop
    \/ EpConstruct("e1")
    \/ RoleCheck("u1", "e1", "listener")
    \/ RoleAttach("u1")
    \/ RoleStart("u1")
    \/ \E t \in TIds : LBind(t)
    \/ \E t \in TIds : LLoop(t)
    \/ \E t \in TIds : LSelfStop(t)

SelfSpec == Init /\ [][SelfNext]_vars

\* The forwarders of one connection, one of which may fail in its send.
ExcNext ==
    \/ \E v \in Payloads : Send(v)
    \/ Recv
    \/ \E i \in TxIds : TxSpawn(i)
    \/ \E i \in TxIds : TxLoop(i)
    \/ \E i \in TxIds : TxGet(i)
    \/ \E i \in TxIds : TxSend(i)
    \/ \E i \in TxIds : TxRaise(i)
    \/ RxSpawn
    \/ RxLoop
    \/ RxRecv

ExcSpec == Init /\ [][ExcNext]_vars

ProcSpec == Init /\ [][QNext]_vars

SchedInit == BaseInit /\ ScInputs /\ XInit

SchedSpec == SchedInit /\ [][SchedNext]_vars

MtSpec == Init /\ [][MtNext]_vars

ConnSpec == Init /\ [][CnNext]_vars

\* The thread that runs connect() keeps running.
ConnFairSpec == ConnSpec /\ WF_vars(CnNext)

PmSpec == Init /\ [][PmNext]_vars

AcceptSpec == Init /\ [][AcceptNext]_vars

ClientSpec == Init /\ [][ClientNext]_vars

NameSpec == Init /\ [][NameNext]_vars

\* ------------------------------------------------------------------ claims
UserEntries(q) == SelectSeq(q, LAMBDA e : e.id > 0)
Held(i) == IF tpc[i] = "send" THEN <<tmsg[i]>> ELSE <<>>
SentEntries == [k \in 1..Len(sent) |-> [id |-> k, val |-> sent[k]]]
NoStopCommanded == \A u \in Units : stopCalls[u] = 0 /\ ~stop_signal[u]

\* C1: with one outbound-forwarder and one inbound-forwarder on one connection,
\* no stop commanded (and neither Endpoint constructed a second time), the
\* messages passed to send() are, in send order, exactly once and unchanged,
\* those already returned by recv() followed by those still on their way:
\* none is lost, duplicated or reordered.
C1_FifoDelivery ==
    (tpc["tx2"] = "unstarted" /\ NoStopCommanded /\ nInit = 0)
        => recvd \o rx_queue \o wire \o Held("tx1") \o UserEntries(tx_queue[tx_cur])
             = SentEntries

\* C2: once an outbound-forwarder on which stop() was called has terminated,
\* every message that was in the outbound mailbox at the stop call has been
\* transmitted on the connection, in enqueue order. Stated for the plainest
\* setting: a single forwarder, an open peer, no sentinel-valued payload and no
\* repeated Endpoint construction.
C2_StopDrainsQueue ==
    (/\ tpc["tx1"] = "done" /\ stopCalls["tx1"] > 0
     /\ tpc["tx2"] = "unstarted" /\ connL = "open" /\ stopCalls[RxId] = 0
     /\ nInit = 0 /\ None \notin Range(sent))
        => /\ snap["tx1"] \subseteq Range(txlog)
           /\ \A j, k \in 1..Len(txlog) : j < k => txlog[j] < txlog[k]

\* Role threads created for address a by listen()/connect() and not yet
\* released by a completed __exit__.
Attached(a) == {t \in 1..nth : th[t].addr = a /\ t \notin released}
Started(a) == {t \in Attached(a) : th[t].pc # "new"}

\* C3: constructing an Endpoint with an address used before yields the instance
\* it had: the same Queue pair with every message still queued in it, and the
\* same role; Endpoints of different addresses never share a Queue pair.
C3_SameAddressSameMailboxes ==
    /\ [][\A a \in Addr :
            (nctor[a] >= 1 /\ nctor'[a] = nctor[a] + 1)
               => /\ ep_qobj'[a] = ep_qobj[a]
                  /\ ep_tx'[a] = ep_tx[a]
                  /\ ep_handler'[a] = ep_handler[a]]_vars
    /\ [](\A a, b \in Addr :
            (a # b /\ nctor[a] > 0 /\ nctor[b] > 0) => ep_qobj[a] # ep_qobj[b])

\* C4: in a sequence of constructions, listen(), connect() and releases (no
\* other call in progress), a listen() or connect() gets past its check only
\* when no started role thread is attached to the address.
C4_OneRoleAtATime ==
    [][\A u \in Callers, a \in Addr :
          (/\ \A w \in Callers : cpc[w] = "idle"
           /\ cpc'[u] = "attach" /\ cop'[u].addr = a)
             => Started(a) = {}]_vars

\* C5: on an Endpoint constructed once, whatever the interleaving of the
\* callers' listen()/connect() calls, at most one attached role thread has been
\* started.
C5_ConcurrentAttachOneWins ==
    \A a \in Addr : nctor[a] <= 1 => Cardinality(Started(a)) <= 1

\* C6: an __exit__ that finds a role attached leaves the role thread's stop
\* signal raised from its first step on; once the role thread was started the
\* call runs on to its last line, which sets _ep_handler to None, so that the
\* check of a following listen()/connect() passes; an __exit__ that finds no
\* role attached changes nothing of the Endpoint, its threads or its socket.
C6_ExitReleasesRole ==
    /\ [](\A u \in Callers :
            cpc[u] \in {"x_conn", "x_hs", "x_join", "x_release"} => th[cop[u].t].sig)
    /\ [][\A u \in Callers :
            (cpc[u] = "x_join" /\ th[cop[u].t].pc # "new" /\ cpc'[u] # "x_join")
               => cpc'[u] = "x_release"]_vars
    /\ [][\A u \in Callers :
            (cpc[u] = "x_release" /\ cpc'[u] = "idle")
               => ep_handler'[cop[u].addr] = NoThread]_vars
    /\ [][exitNoops' # exitNoops =>
            UNCHANGED <<ep_handler, ep_tx, ep_qobj, th, nth, sock, backlog, handlers>>]_vars

\* C6's case: a released role thread with its signal raised, a later role
\* attached to the same address, and an __exit__ that found no role.
C6_Witness ==
    /\ exitNoops > 0
    /\ \E t \in released :
          /\ th[t].sig
          /\ ep_handler[th[t].addr] \in (t + 1)..nth

\* C7 as stated: once __exit__ released a Listener role, the socket path is no
\* longer held by that ListenerThread.
C7_ReleasedSocketFree ==
    \A t \in released : th[t].kind = "listener" => sock[th[t].addr] # t

\* C7, amended: once __exit__ released a Listener role and the ListenerThread
\* has terminated, its socket is closed and the path is free of it; a socket
\* path is held only by a ListenerThread still inside its `with Listener`.
C7_TerminatedSocketFree ==
    /\ \A t \in released :
          (th[t].kind = "listener" /\ th[t].pc = "done") => sock[th[t].addr] # t
    /\ \A a \in Addr : sock[a] # NoThread => th[sock[a]].pc \in {"loop", "accept"}

\* C7's case: a released ListenerThread that had bound the socket has
\* terminated, and a later ListenerThread is bound to the same path.
C7_Witness ==
    \E t \in released \cap everBound :
        /\ th[t].pc = "done"
        /\ sock[th[t].addr] \in (t + 1)..nth

\* C8: an outbound-forwarder that was blocked on an empty outbound mailbox when
\* stop() was called on it eventually terminates, however many forwarders share
\* the mailbox (stated for runs that never construct the Endpoint again).
C8_BlockedForwarderWakes ==
    \A i \in TxIds :
        (i \in blockedAtStop /\ nInit = 0) ~> (tpc[i] = "done" \/ nInit # 0)

\* C9: an outbound-forwarder leaves its loop on a popped value without
\* transmitting it only when stop() enqueued that value, and every user payload
\* that has left the outbound mailbox is held for sending or was transmitted.
C9_SentinelReserved ==
    /\ \A i \in TxIds : brokeOn[i] # NoMsg => brokeOn[i].id = 0
    /\ (nInit = 0 /\ connC = "open" /\ connL = "open") =>
          \A k \in 1..Len(sent) :
              \/ k \in UserIds(tx_queue[tx_cur])
              \/ \E i \in TxIds : tpc[i] = "send" /\ tmsg[i].id = k
              \/ k \in Range(txlog)

\* C10: a unit's stop signal, once true, is true in every later state, whatever
\* stop() calls and stop_signal assignments (False included) follow.
C10_StopSignalOneWay ==
    [][\A u \in Units : stop_signal[u] => stop_signal'[u]]_vars

\* C10's case: a raised signal that has since seen a second stop() and an
\* assignment of False.
C10_Witness ==
    \E u \in Units : stop_signal[u] /\ u \in clearTried /\ stopCalls[u] >= 2

\* C11: a stop() that a unit issues on itself fails and leaves the unit's
\* stop signal and its Endpoint's mailboxes as they were, for the base unit
\* (the inbound forwarder has no override), the outbound forwarder and the
\* Listener: every step that is a self-stop changes no stop signal and no
\* queue.
C11_SelfStopChangesNothing ==
    [][nSelf' # nSelf =>
          /\ stop_signal' = stop_signal
          /\ th' = th
          /\ tx_queue' = tx_queue
          /\ rx_queue' = rx_queue]_vars

Reverse(s) == [j \in 1..Len(s) |-> s[Len(s) + 1 - j]]

\* C12: when the run body of a unit has ended, by return or by an exception,
\* the cleanup stack made at run entry is unwound once, and by the time the
\* unit is terminated every child it spawned has been commanded to stop, in
\* the reverse of the spawn order.
C12_UnwoundOnceInReverse ==
    /\ m_unwinds <= 1
    /\ m_ppc = "terminated" =>
          /\ m_unwinds = 1
          /\ m_stack = <<>>
          /\ m_stopped = Reverse(m_spawned)
          /\ \A k \in Range(m_spawned) : m_sig[k]
    /\ \A j \in 1..Len(m_stopped) : m_stopped[j] = m_spawned[Len(m_spawned) + 1 - j]

C12_Witness ==
    /\ m_ppc = "terminated"
    /\ m_pout = "Exception"
    /\ m_spawned = <<"k2", "k1">>
    /\ m_stopped = <<"k1", "k2">>

\* C13: an exception raised in a handler thread's run body ends that thread
\* only: with no stop commanded and no sentinel-valued payload sent, the
\* other handler threads of the connection, which did not fail themselves,
\* are still running.
C13_HandlerFailureIsLocal ==
    (raised # {} /\ NoStopCommanded /\ None \notin Range(sent))
        => \A j \in TxIds \ raised : tpc[j] # "done"

\* C14: once the holder has left the scope of a thread, whether the body
\* returned or raised any exception, stop has been called on the unit with a
\* timeout (its stop signal is raised) and no exception of the body goes on
\* to the holder.
C14_ScopeExitStopsAndSuppresses ==
    /\ m_hpc = "after" => (m_pstop = 1 /\ m_sig[MUnit] /\ ~m_prop)
    /\ m_hpc # "after" => (m_pstop = 0 /\ ~m_prop)

C14_Witness ==
    /\ m_hpc = "after"
    /\ m_hexc = "BaseException"
    /\ m_pstop = 1

\* C15: the connection bound to several handler threads stays open as long
\* as one of them is still running: with no repeated construction and no
\* sentinel-valued payload, a closed connection has no handler thread left
\* in its run loop.
C15_ConnOpenWhileHandlerRuns ==
    (nInit = 0 /\ None \notin Range(sent))
        => (connC = "closed" => \A i \in TxIds : tpc[i] \notin {"loop", "get", "send"})

\* C16: Listener stop() raises the stop signal before it opens its throwaway
\* connection (whoever is at or past the connect of a stop has the stopped
\* thread's signal raised), and a Listener that is blocked in accept with its
\* stop signal raised eventually has left its loop, closed its socket and
\* terminated.
C16_StopUnblocksListener ==
    /\ [](\A u \in Callers :
            cpc[u] \in {"x_conn", "x_hs", "x_join", "x_release"} => th[cop[u].t].sig)
    /\ \A t \in TIds :
          (th[t].kind = "listener" /\ th[t].pc = "accept" /\ th[t].sig)
              ~> (th[t].pc = "done" /\ sock[th[t].addr] # t)

C16_Witness ==
    \E t \in TIds, u \in Callers :
        /\ th[t].kind = "listener"
        /\ th[t].pc = "accept"
        /\ th[t].sig
        /\ cpc[u] = "x_hs"
        /\ cop[u].t = t
        /\ \E e \in Range(backlog[th[t].addr]) : e.by = u

\* C17 (as stated): if no connection can be opened before the overall timeout
\* has elapsed, the attempt loop ends with a connection error: no connection
\* is returned by an attempt begun after the timeout elapsed; and after the
\* error the Client thread has spawned no handler and propagated nothing.
C17_TimeoutEndsAttempts ==
    /\ c_okAt # <<>> => c_okAt[1] <= c_timeout
    /\ c_pc = "error" => (c_handlers = 0 /\ ~c_escaped)

\* C17 (amended): the timeout is looked at only after a failed attempt. The
\* loop ends with a connection error only when the timeout has elapsed and
\* no attempt succeeded; no attempt begins later than twice the timeout plus
\* the initial delay; every call ends, connected or with the error; and after
\* the error the calling thread terminates with no handler spawned and
\* nothing propagated.
C17_ErrorAtFirstFailureAfterTimeout ==
    /\ [](c_pc = "error" =>
            (c_now > c_timeout /\ c_okAt = <<>> /\ c_handlers = 0 /\ ~c_escaped))
    /\ [](c_pc = "try" => c_now <= 2 * c_timeout + InitialBackoff)
    /\ [](c_okAt # <<>> => c_okAt[1] <= 2 * c_timeout + InitialBackoff)
    /\ (c_pc = "try") ~> (c_pc \in {"connected", "error"})
    /\ (c_pc = "error") ~> (c_thr = "done" /\ c_handlers = 0 /\ ~c_escaped)

C17_Witness ==
    /\ c_thr = "done"
    /\ c_pc = "error"
    /\ c_timeout = TIMEOUT
    /\ c_now > TIMEOUT

\* C18: the delay slept before retry n is 1 ms * 2^(n-1), and no delay
\* exceeds a fixed cap however many attempts fail. The source names no cap;
\* the formula takes the most generous fixed one the source offers, the
\* class's TIMEOUT.
C18_BackoffDoublesUpToCap ==
    \A n \in 1..Len(c_delays) :
        /\ c_delays[n] = InitialBackoff * Pow2(n - 1)
        /\ c_delays[n] <= TIMEOUT

\* C19: once start() has set the lock, every ManagedProcess construction begun
\* from then on fails: it gets past no check, registers nothing, and leaves
\* the roster as it was.
C19_LockedConstructionFails ==
    /\ [][p_lock =>
            /\ p_nproc' = p_nproc
            /\ \A b \in Builders : p_cpc[b] = "idle" => p_cpc'[b] = "idle"]_vars
    /\ [][p_late' # p_late =>
            /\ p_lock
            /\ p_roster' = p_roster
            /\ p_cpc' = p_cpc]_vars

C19_Witness ==
    /\ p_lock
    /\ p_late > 0
    /\ Len(p_roster) = MaxProc
    /\ \E m \in Managers : p_spc[m] = "done"

\* C20: start() is one-shot: a start() called when an earlier start() has set
\* the lock, on the same or on another ProcessManager, fails and launches
\* nothing, so that, start() calls not overlapping, no registered process is
\* launched more than once.
C20_StartOneShot ==
    /\ [][\A m \in Managers :
            (p_calls'[m] # p_calls[m] /\ p_lock)
                => (p_spc'[m] = "failed" /\ p_nstart' = p_nstart /\ p_idx' = p_idx)]_vars
    /\ [](~p_race =>
            /\ \A p \in ProcIds : p_nstart[p] <= 1
            /\ Cardinality({m \in Managers : p_spc[m] \in {"iter", "popen"}}) <= 1)

C20_Witness ==
    /\ ~p_race
    /\ p_spc["m1"] = "done"
    /\ p_calls["m1"] = 1
    /\ p_spc["m2"] = "failed"
    /\ p_calls["m2"] = 2
    /\ \A p \in ProcIds : p_nstart[p] = 1

\* C21: start() starts the registered processes in registration order: the
\* scopes on a manager's cleanup stack are a prefix of the roster, in roster
\* order; while the loop is at entry k, and after starting entry k failed,
\* entries before k are launched and on the stack; and, start() calls not
\* overlapping, no entry is launched before an entry registered ahead of it.
C21_StartInRosterOrder ==
    /\ \A m \in Managers :
          /\ p_stack[m] = SubSeq(p_roster, 1, Len(p_stack[m]))
          /\ (p_spc[m] \in {"iter", "popen"} \/ p_err[m] = "StartError") =>
                /\ Len(p_stack[m]) = p_idx[m] - 1
                /\ \A j \in 1..(p_idx[m] - 1) : p_nstart[p_roster[j]] >= 1
    /\ ~p_race => p_order = SubSeq(p_roster, 1, Len(p_order))

C21_Witness ==
    \E m \in Managers :
        /\ ~p_race
        /\ p_spc[m] = "failed"
        /\ p_err[m] = "StartError"
        /\ Len(p_roster) = 2
        /\ p_idx[m] = 2
        /\ p_stack[m] = <<p_roster[1]>>
        /\ p_nstart[p_roster[1]] = 1
        /\ p_nstart[p_roster[2]] = 0

\* C22: a failure while starting roster entry k is contained by that entry's
\* scope: start() raises no start failure to its caller.
C22_StartFailureContained ==
    \A m \in Managers : p_err[m] # "StartError"

\* C23: no registered process is launched before the Listener of the 'log'
\* Endpoint has been started.
C23_ListenerBeforeProcesses ==
    (\E p \in ProcIds : p_nstart[p] > 0) => p_lsn

\* C24: wait_processes returns only when every process that was alive at the
\* call has exited, or the timeout has elapsed; without a timeout it does not
\* return while any such process is still alive.
C24_WaitForEveryProcess ==
    q_wpc = "returned" => (q_wdue \/ \A p \in q_wset : ~IsAlive(p))

\* C25: leaving a ManagedProcess scope joins a process that is still alive
\* with the bounded TIMEOUT, makes no join when the process is no longer
\* alive, and in every case suppresses the exception of the scope body.
C25_ScopeExitJoinsAndSuppresses ==
    \A p \in QProcs :
        q_hpc[p] = "after" =>
            /\ q_join[p] = (IF q_live[p] THEN <<PTIMEOUT>> ELSE <<>>)
            /\ ~q_prop[p]

C25_Witness ==
    \E p, r \in QProcs :
        /\ q_hpc[p] = "after" /\ q_hexc[p] = "BaseException"
        /\ q_live[p] /\ q_join[p] = <<PTIMEOUT>>
        /\ q_hpc[r] = "after" /\ q_hexc[r] = "Exception"
        /\ ~q_live[r] /\ q_join[r] = <<>>

\* C26: however the child's task() ends (return or raise), the process's
\* cleanup stack is closed exactly once after it, releasing the resources in
\* reverse order of acquisition; and the step in which a child's try block
\* ends, and every step of its cleanup and exit, changes nothing of any other
\* process and nothing of the scopes and calls in the parent.
C26_CleanupOnceInReverse ==
    /\ [](\A p \in QProcs :
            /\ q_closes[p] <= 1
            /\ q_rpc[p] \in {"new", "setup", "task"} =>
                  (q_closes[p] = 0 /\ q_rel[p] = <<>>)
            /\ q_rpc[p] \in {"close", "exited"} => q_closes[p] = 1
            /\ q_rpc[p] = "exited" => q_rel[p] = Reverse(q_acq[p]))
    /\ [][\A p \in QProcs :
            (\/ q_closes'[p] # q_closes[p]
             \/ q_rel'[p] # q_rel[p]
             \/ (q_rpc[p] = "close" /\ q_rpc'[p] = "exited")) =>
                /\ \A r \in QProcs \ {p} :
                      /\ q_rpc'[r] = q_rpc[r] /\ q_res'[r] = q_res[r]
                      /\ q_rel'[r] = q_rel[r] /\ q_closes'[r] = q_closes[r]
                /\ UNCHANGED <<q_hpc, q_hexc, q_prop, q_wpc>>]_vars

C26_Witness ==
    \E p, r \in QProcs :
        /\ q_rpc[p] = "exited" /\ q_out[p] = "Exception"
        /\ q_acq[p] = <<"log", "r1">> /\ q_rel[p] = <<"r1", "log">>
        /\ q_rpc[r] = "task" /\ q_hpc[r] = "body" /\ q_hpc[p] = "body"

\* C27: for every requested (policy, priority), once _set_scheduler has run
\* and the OS accepted its calls, the priority of the process is the requested
\* one clamped into [min, max] of the policy, and a warning was logged exactly
\* when the request was outside that range.
C27_PriorityClamped ==
    (s_pc = "done" /\ s_policy # "None" /\ s_error \notin {"PermissionError", "OSError"}) =>
        /\ s_eff = [policy |-> s_policy, prio |-> Clamp(s_policy, s_prio)]
        /\ s_warned <=> (s_prio # Clamp(s_policy, s_prio))

C30_RosterStartedExactlyOnce ==
    /\ Cardinality({m \in Managers : p_spc[m] \in {"iter", "popen"}}) <= 1
    /\ \A p \in ProcIds : p_nstart[p] <= 1
    /\ ((\E m \in Managers : p_spc[m] = "done")
          /\ \A m \in Managers : p_spc[m] \notin {"lock", "iter", "popen"}) =>
            \A j \in 1..Len(p_roster) : p_nstart[p_roster[j]] >= 1

\* The classes of the handler threads spawned for connection c, in spawn
\* order, and the connection handler classes among the first n configured.
SpawnedFor(c) ==
    LET OfConn(r) == r.conn = c
        rs == SelectSeq(l_spawned, OfConn)
    IN  [j \in 1..Len(rs) |-> rs[j].cls]
ValidHandlers(cfg, n) ==
    LET Valid(cls) == cls \in HandlerClasses
    IN  SelectSeq(SubSeq(cfg, 1, n), Valid)

\* C31: for every connection the Listener accepted, the throwaway connection
\* of stop() included, once its for loop is through exactly one handler thread
\* was spawned per configured connection handler class, in configured order,
\* each bound to that connection and to the Listener's Endpoint; configured
\* classes that are no connection handlers were skipped and stopped nothing.
C31_HandlersPerAcceptedConnection ==
    /\ \A c \in 1..l_conn :
          LET n == IF c = l_conn /\ l_pc = "spawn" THEN l_idx - 1 ELSE Len(l_cfg)
          IN  SpawnedFor(c) = ValidHandlers(l_cfg, n)
    /\ \A j \in 1..Len(l_spawned) :
          /\ l_spawned[j].conn \in 1..l_conn
          /\ l_spawned[j].ep = "self.endpoint"
    /\ \A j \in 1..Len(l_skipped) : l_skipped[j].cls \notin HandlerClasses
    /\ Len(l_kind) = l_conn

C31_Witness ==
    /\ l_pc = "done"
    /\ l_cfg = <<"NotAHandler", "LogRxThread">>
    /\ l_kind = <<"client", "throwaway">>
    /\ SpawnedFor(2) = <<"LogRxThread">>
    /\ Len(l_skipped) = 2

\* C32 (as stated): after a Client thread has connected and spawned its
\* handlers it opens no further connection and stays alive until its stop
\* signal is raised; every message sent after the connection was lost remains
\* in the outbound mailbox.
C32_MessagesAfterLossStay ==
    /\ k_nconn <= 1
    /\ (k_lostAt # <<>> /\ ~k_sig) =>
          \A n \in (k_lostAt[1] + 1)..k_nsent : n \in Range(k_mbox)

\* C32 (amended): the Client opens one connection at most and leaves its wait
\* only when its stop signal is raised; no message sent after the connection
\* was lost is ever transmitted; and once all its handler threads have
\* terminated, and until stop, nothing is taken from the outbound mailbox:
\* the messages sent from then on remain in it.
C32_NoReconnectAfterLoss ==
    /\ [](k_nconn <= 1)
    /\ [](k_lostAt # <<>> => \A j \in 1..Len(k_wire) : k_wire[j] <= k_lostAt[1])
    /\ [][(k_pc = "wait" /\ k_pc' # "wait") => k_sig]_vars
    /\ [][k_pc # "new" => k_nconn' = k_nconn]_vars
    /\ [][(k_pc = "wait" /\ ~k_sig /\ \A h \in KHandlers : k_h[h] \in {"none", "done"}) =>
            /\ Len(k_mbox') >= Len(k_mbox)
            /\ SubSeq(k_mbox', 1, Len(k_mbox)) = k_mbox
            /\ k_wire' = k_wire]_vars

C32_Witness ==
    /\ k_pc = "wait" /\ ~k_sig
    /\ k_nconn = 1
    /\ k_h = [h \in KHandlers |-> IF h = "h1" THEN "done" ELSE "none"]
    /\ k_lostAt = <<0>>
    /\ k_nsent = 2
    /\ k_wire = <<>>
    /\ k_mbox = <<2>>

\* C33: an inbound-forwarder blocked in receive leaves the receive only when
\* a message has arrived or the peer has closed the connection, whether or not
\* its stop signal is raised; a message that arrives after the stop signal is
\* still put at the tail of the inbound mailbox; and a stop() call on the
\* forwarder changes nothing but the stop signal, so it returns with the
\* forwarder still blocked.
C33_BlockedReceiveIgnoresStop ==
    /\ [][(rpc = "recv" /\ rpc' # "recv") => (wire # <<>> \/ connC = "closed")]_vars
    /\ [][(rpc = "recv" /\ stop_signal[RxId] /\ wire # <<>> /\ rpc' # "recv") =>
            /\ rx_queue' = Append(rx_queue, Head(wire))
            /\ rpc' = "loop"]_vars
    /\ [][stopCalls'[RxId] # stopCalls[RxId] =>
            /\ stop_signal'[RxId]
            /\ rpc' = rpc
            /\ UNCHANGED <<rx_queue, wire, connC, connL>>]_vars

C33_Witness ==
    /\ stopCalls[RxId] >= 1
    /\ stop_signal[RxId]
    /\ rpc = "recv"
    /\ wire # <<>>
    /\ rx_queue # <<>>

\* C34: spawn(child) never raises to its caller; a spawn attempted while the
\* parent has no cleanup stack (before its run entry) is logged, starts no
\* child and leaves the parent as it was; and every child that spawn() starts
\* is pushed on the parent's cleanup stack in the same step.
C34_SpawnNeverRaises ==
    /\ [](\A j \in 1..Len(m_early) : ~m_early[j].escaped)
    /\ [](\A k \in Kids : m_kpc[k] # "new" => k \in Range(m_spawned))
    /\ [][m_early' # m_early => UNCHANGED <<m_kpc, m_stack, m_ppc, m_spawned, m_sig>>]_vars
    /\ [][\A k \in Kids : (m_kpc[k] = "new" /\ m_kpc'[k] = "run") =>
            /\ m_stack' = Append(m_stack, k)
            /\ m_ppc' = m_ppc]_vars

C34_Witness ==
    /\ m_early = <<[kid |-> "k1", escaped |-> FALSE]>>
    /\ m_ppc = "body"
    /\ m_kpc["k1"] = "run"
    /\ m_stack = <<"dbg", "k1">>

\* ------------------------------------------------------------------ C35
\* os.sched_setaffinity(self.pid, [3]) has returned: it is reached only after
\* os.sched_setscheduler returned inside the `current_policy != sched_policy
\* or ...` branch.
Pinned == s_set /\ s_error # "OSError"

\* C35: whenever a scheduling policy was requested and applying it raised no
\* error, the process is pinned to the configured cores when _set_scheduler
\* has returned, that is, before task() runs.
C35_PinnedWhenPolicyRequested ==
    (s_pc = "done" /\ s_policy # "None" /\ s_error = "none") => Pinned

\* ------------------------------------------------------------------ C36
\* C36: for any sequence of unit constructions across the unit classes, no
\* two units have the same generated name.
C36_GeneratedNamesUnique ==
    \A i, j \in 1..Len(n_names) : i # j => n_names[i].name # n_names[j].name

\* ------------------------------------------------------------------ C37
\* C37: leaving the ProcessManager scope releases the log-collection
\* Listener only after every process scope of that manager has been exited:
\* once a manager has released the 'log' Endpoint, none of its process scopes
\* is still waiting to be exited.
C37_ListenerReleasedLast ==
    \A m \in Managers :
        (\E i \in 1..Len(p_rel) : p_rel[i] = [mgr |-> m, cm |-> LogCm])
            => \A j \in 1..Len(p_cbs[m]) : p_cbs[m][j] = LogCm

\* ------------------------------------------------------------------ C38
\* C38: once an outbound-forwarder has terminated and no forwarder is running
\* or being stopped, no Sentinel put by stop() remains in the Endpoint's
\* outbound mailbox (where a forwarder attached later would find it).
C38_NoSentinelLeftBehind ==
    (/\ \E i \in TxIds : tpc[i] = "done"
     /\ \A i \in TxIds : tpc[i] \in {"unstarted", "done"} /\ spc[i] = "idle")
        => \A k \in 1..Len(tx_queue[tx_cur]) : tx_queue[tx_cur][k].id # 0

\* ------------------------------------------------------------------ C39
\* C39: an Endpoint's attached role is cleared only by scope exit: every
\* step that takes an Endpoint from having a role to having none is the last
\* line of an Endpoint.__exit__ call on that Endpoint.
C39_RoleClearedOnlyByExit ==
    [][\A a \in Addr :
          (ep_handler[a] # NoThread /\ ep_handler'[a] = NoThread)
              => \E u \in Callers : /\ cpc[u] = "x_release"
                                    /\ cop[u].addr = a
                                    /\ cpc'[u] = "idle"]_vars

====
